---- MODULE Spec2Model ----
(***************************************************************************)
(* Persistence layer of the Maxine mod tracker: the atomic JSON writer,    *)
(* the document loader with its legacy migration, save_data, the settings  *)
(* loader, the maintenance table with its due computation, and the         *)
(* application handlers that drive them.                                   *)
(*                                                                         *)
(* Python values are records [t, s, n, k, c]: t is the type tag, s the     *)
(* string payload, n the numeric payload, k the keys of a dict (in         *)
(* insertion order) and c the children of a list or the values of a dict.  *)
(* A number has its floor in n and, for a float that is no whole number,   *)
(* its fractional digits in s.                                             *)
(* A JSON text is a sequence of tokens; punctuation tokens carry their     *)
(* character in t, scalar tokens are the scalar itself.                    *)
(***************************************************************************)
EXTENDS Integers, Sequences, FiniteSets, TLC

VARIABLES
    fs,             \* the directory of the scripts: file name -> [exists, text]
    data,           \* ModTrackerApp.data, the in-memory document
    vehicle,        \* ModTrackerApp.vehicle, as its index in data["vehicles"]
    dirty,          \* ModTrackerApp.dirty
    last_saved_at,  \* ModTrackerApp.last_saved_at
    clock,          \* the wall clock, in ticks of 1/TicksPerSecond second;
                    \* every event the main loop dispatches takes one tick
    pc,             \* where the process is
    wr,             \* the frame of the running safe_write_json call
    outcome,        \* how the last handler ended
    variant,        \* which program runs: the modular one or maxine_mods.py
    faults,         \* the failures and kills the environment has injected
    before,         \* history: the document when save_data was entered
    settings,       \* ModTrackerApp.settings
    tree_maint,     \* ModTrackerApp.tree_maint: the rows of the maintenance table
    editor,         \* the ItemEditor window, if one is open
    assets,         \* the files of the assets directory
    autosave_pending  \* a call of _autosave_tick is scheduled with after()

vars == <<fs, data, vehicle, dirty, last_saved_at, clock, pc, wr, outcome,
          variant, faults, before, settings, tree_maint, editor, assets,
          autosave_pending>>

----------------------------------------------------------------------------
(* Bounds of the model *)

MaxClock == 3
MaxVehicles == 2
MaxLegacy == 2
MaxFaults == 2
TicksPerSecond == 2
ChunkTokens == 64

----------------------------------------------------------------------------
(* Python values *)

Val(t, s, n, k, c) == [t |-> t, s |-> s, n |-> n, k |-> k, c |-> c]

PyNone == Val("null", "", 0, <<>>, <<>>)
PyBool(b) == Val("bool", "", IF b THEN 1 ELSE 0, <<>>, <<>>)
PyInt(n) == Val("int", "", n, <<>>, <<>>)
PyFloat(n) == Val("float", "", n, <<>>, <<>>)
\* the float n + 0.h, h in hundredths written without trailing zero
\* ("5" is .5, "45" is .45); n is the floor of the value
PyFrac(n, h) == Val("float", h, n, <<>>, <<>>)
PyStr(s) == Val("str", s, 0, <<>>, <<>>)
PyList(c) == Val("list", "", 0, <<>>, c)
PyDict(k, c) == Val("dict", "", 0, k, c)

\* a "%Y-%m-%d %H:%M:%S" string: the text of the second n
TimeStr(n) == Val("str", "@", n, <<>>, <<>>)

ScalarTypes == {"null", "bool", "int", "float", "str"}
NumericTypes == {"bool", "int", "float"}

\* bool(v)
Truthy(v) ==
    CASE v.t = "null" -> FALSE
      [] v.t \in NumericTypes -> v.n # 0 \/ v.s # ""
      [] v.t = "str" -> v.s # ""
      [] OTHER -> Len(v.c) > 0

\* key in d
Has(d, key) == \E i \in 1..Len(d.k) : d.k[i] = key

KeyIndex(d, key) == CHOOSE i \in 1..Len(d.k) : d.k[i] = key

\* d[key]
Item(d, key) == d.c[KeyIndex(d, key)]

\* d.get(key)
Get(d, key) == IF Has(d, key) THEN Item(d, key) ELSE PyNone

\* d[key] = v
Put(d, key, v) ==
    IF Has(d, key)
    THEN [d EXCEPT !.c[KeyIndex(d, key)] = v]
    ELSE [d EXCEPT !.k = Append(@, key), !.c = Append(@, v)]

\* d.setdefault(key, v), as the dict it leaves
SetDefault(d, key, v) == IF Has(d, key) THEN d ELSE Put(d, key, v)

RECURSIVE PyEq(_, _)
\* a == b
PyEq(a, b) ==
    IF a.t \in NumericTypes /\ b.t \in NumericTypes
    THEN a.n = b.n /\ a.s = b.s
    ELSE IF a.t # b.t THEN FALSE
    ELSE CASE a.t = "null" -> TRUE
           [] a.t = "str" -> a.s = b.s /\ a.n = b.n
           [] a.t = "list" ->
                /\ Len(a.c) = Len(b.c)
                /\ \A i \in 1..Len(a.c) : PyEq(a.c[i], b.c[i])
           [] OTHER ->
                /\ Len(a.k) = Len(b.k)
                /\ \A i \in 1..Len(a.k) :
                      Has(b, a.k[i]) /\ PyEq(a.c[i], Item(b, a.k[i]))

----------------------------------------------------------------------------
(* json.dump and json.loads *)

Tok(p) == Val(p, "", 0, <<>>, <<>>)

RECURSIVE Dump(_), DumpElems(_), DumpMembers(_, _)

\* json.dump(v): the text, as tokens (indentation is not significant)
Dump(v) ==
    CASE v.t = "list" -> <<Tok("[")>> \o DumpElems(v.c) \o <<Tok("]")>>
      [] v.t = "dict" -> <<Tok("{")>> \o DumpMembers(v.k, v.c) \o <<Tok("}")>>
      [] OTHER -> <<v>>

DumpElems(c) ==
    IF c = <<>> THEN <<>>
    ELSE IF Len(c) = 1 THEN Dump(c[1])
    ELSE Dump(c[1]) \o <<Tok(",")>> \o DumpElems(Tail(c))

DumpMembers(k, c) ==
    IF k = <<>> THEN <<>>
    ELSE LET m == <<PyStr(k[1]), Tok(":")>> \o Dump(c[1])
         IN IF Len(k) = 1 THEN m
            ELSE m \o <<Tok(",")>> \o DumpMembers(Tail(k), Tail(c))

ParseFail == [ok |-> FALSE, val |-> PyNone, rest |-> <<>>]
ParseOk(v, rest) == [ok |-> TRUE, val |-> v, rest |-> rest]

RECURSIVE ParseValue(_), ParseElems(_, _), ParseMembers(_, _)

\* the decoder's scan of one value at the head of toks
ParseValue(toks) ==
    IF toks = <<>> THEN ParseFail
    ELSE LET h == Head(toks)
             r == Tail(toks)
         IN CASE h.t \in ScalarTypes -> ParseOk(h, r)
              [] h.t = "[" ->
                   IF r # <<>> /\ Head(r).t = "]"
                   THEN ParseOk(PyList(<<>>), Tail(r))
                   ELSE ParseElems(r, <<>>)
              [] h.t = "{" ->
                   IF r # <<>> /\ Head(r).t = "}"
                   THEN ParseOk(PyDict(<<>>, <<>>), Tail(r))
                   ELSE ParseMembers(r, PyDict(<<>>, <<>>))
              [] OTHER -> ParseFail

ParseElems(toks, acc) ==
    LET e == ParseValue(toks)
    IN IF ~e.ok \/ e.rest = <<>> THEN ParseFail
       ELSE LET sep == Head(e.rest).t
                got == Append(acc, e.val)
            IN CASE sep = "," -> ParseElems(Tail(e.rest), got)
                 [] sep = "]" -> ParseOk(PyList(got), Tail(e.rest))
                 [] OTHER -> ParseFail

\* a repeated key keeps its first position and takes the last value
ParseMembers(toks, acc) ==
    IF Len(toks) < 2 \/ toks[1].t # "str" \/ toks[2].t # ":" THEN ParseFail
    ELSE LET e == ParseValue(Tail(Tail(toks)))
         IN IF ~e.ok \/ e.rest = <<>> THEN ParseFail
            ELSE LET sep == Head(e.rest).t
                     got == Put(acc, toks[1].s, e.val)
                 IN CASE sep = "," -> ParseMembers(Tail(e.rest), got)
                      [] sep = "}" -> ParseOk(got, Tail(e.rest))
                      [] OTHER -> ParseFail

\* json.loads(text): ok is FALSE where it raises JSONDecodeError
Loads(text) ==
    LET r == ParseValue(text)
    IN IF r.ok /\ r.rest = <<>> THEN r ELSE ParseFail

----------------------------------------------------------------------------
(* models.py, and the built-in conversions on the values of the model *)

\* now_iso(): the wall clock formatted to the second
now_iso == TimeStr(clock \div TicksPerSecond)

\* today_str(): the wall clock formatted to the day
today_str == Val("str", "@day", (clock \div TicksPerSecond) \div 86400, <<>>, <<>>)

\* s.strip() on the strings of the model
Strip(s) == IF s = " " THEN "" ELSE s

\* normalize_int(s) and normalize_money(s) on the strings of the model
normalize_int(s) ==
    CASE s = "150,000" -> "150000"
      [] s = "147,000" -> "147000"
      [] OTHER -> Strip(s)
normalize_money(s) == IF s = "$1,199.99" THEN "1199.99" ELSE Strip(s)

\* the decimal texts of the model that int() accepts, with their values
IntLiteral ==
    ("0" :> 0) @@ ("-1" :> -1) @@ ("2" :> 2) @@ ("5" :> 5) @@ ("3000" :> 3000)
    @@ ("147000" :> 147000) @@ ("150000" :> 150000) @@ ("153000" :> 153000)
    @@ ("160000" :> 160000)

\* the other texts float() accepts
FracLiteral == ("1.5" :> PyFrac(1, "5")) @@ ("1199.99" :> PyFrac(1199, "99"))

\* int(s) and float(s) on a str do not raise ValueError
IntParses(s) == s \in DOMAIN IntLiteral
FloatParses(s) == IntParses(s) \/ s \in DOMAIN FracLiteral

\* str(v) of a str, an int, a bool or None
py_str(v) ==
    CASE v.t = "str" -> v.s
      [] v.t = "null" -> "None"
      [] v.t = "bool" -> IF v.n = 1 THEN "True" ELSE "False"
      [] v.t = "int" -> CHOOSE s \in DOMAIN IntLiteral : IntLiteral[s] = v.n

\* int(v) raises (ValueError, TypeError)
IntRaises(v) ==
    CASE v.t \in NumericTypes -> FALSE
      [] v.t = "str" -> ~IntParses(Strip(v.s))
      [] OTHER -> TRUE

\* int(v) where it does not raise: a float is cut towards zero
py_int(v) ==
    CASE v.t = "str" -> IntLiteral[Strip(v.s)]
      [] v.t = "float" -> IF v.n < 0 /\ v.s # "" THEN v.n + 1 ELSE v.n
      [] OTHER -> v.n

\* float(v) raises (ValueError, TypeError)
FloatRaises(v) ==
    CASE v.t \in NumericTypes -> FALSE
      [] v.t = "str" -> ~FloatParses(Strip(v.s))
      [] OTHER -> TRUE

\* float(v) where it does not raise
py_float(v) ==
    CASE v.t = "float" -> v
      [] v.t = "str" -> IF IntParses(Strip(v.s))
                        THEN PyFloat(IntLiteral[Strip(v.s)])
                        ELSE FracLiteral[Strip(v.s)]
      [] OTHER -> PyFloat(v.n)

----------------------------------------------------------------------------
(* data_store.py: the document store *)

DATA_FILE == "maxine_mods.json"
SETTINGS_FILE == "maxine_settings.json"
TmpNames == {"._mods_a.json", "._mods_b.json"}
FileNames == {DATA_FILE, SETTINGS_FILE} \cup TmpNames

NoFile == [exists |-> FALSE, text |-> <<>>]
FileOf(text) == [exists |-> TRUE, text |-> text]

SeedId == PyStr("maxine-06-maxima")

SeedVehicle ==
    PyDict(<<"id", "name", "year", "make", "model",
             "current_mileage", "items", "maintenance">>,
           <<SeedId, PyStr("Maxine"), PyInt(2006), PyStr("Nissan"),
             PyStr("Maxima"), PyNone, PyList(<<>>), PyList(<<>>)>>)

default_data(now) ==
    PyDict(<<"schema", "active_vehicle_id", "vehicles", "updated_at">>,
           <<PyInt(1), SeedId, PyList(<<SeedVehicle>>), now>>)

\* (faulty variant: the list is not carried over)
LegacyDocumentDropped(raw, now) == default_data(now)
\* the list branch of load_data: the file is the items list of the seed vehicle
LegacyDocument(raw, now) ==
    LET d == default_data(now)
        v == Put(Item(d, "vehicles").c[1], "items", raw)
    IN Put(Put(d, "vehicles", PyList(<<v>>)), "updated_at", now)

\* (faulty variant: the schema tag is not looked at)
SchemaRecognisedAnyDict(raw) == raw.t = "dict"
\* isinstance(raw, dict) and raw.get("schema") == 1
SchemaRecognised(raw) == raw.t = "dict" /\ PyEq(Get(raw, "schema"), PyInt(1))

\* (faulty variant: assignment instead of setdefault)
BackfillVehicleOverwrite(v) ==
    Put(Put(Put(v, "current_mileage", PyNone), "items", PyList(<<>>)),
        "maintenance", PyList(<<>>))
\* the three setdefault calls on one vehicle entry
BackfillVehicle(v) ==
    SetDefault(SetDefault(SetDefault(v, "current_mileage", PyNone),
                          "items", PyList(<<>>)),
               "maintenance", PyList(<<>>))

\* "for v in vs: v.setdefault(...)" raises: vs is not iterable (TypeError) or
\* yields something that is no dict (AttributeError)
VehiclesLoopRaises(vs) ==
    CASE vs.t = "list" -> \E i \in 1..Len(vs.c) : vs.c[i].t # "dict"
      [] vs.t = "dict" -> Len(vs.k) > 0
      [] vs.t = "str" -> vs.s # ""
      [] OTHER -> TRUE

BackfillVehicles(vs) == PyList([i \in 1..Len(vs.c) |-> BackfillVehicle(vs.c[i])])

\* (faulty variant: an empty "vehicles" is left empty)
BackfillTopKeepEmpty(raw, now) ==
    SetDefault(SetDefault(SetDefault(raw, "updated_at", now),
                          "active_vehicle_id", SeedId),
               "vehicles", PyList(<<>>))
\* the top-level setdefault calls and the replacement of a falsy "vehicles"
BackfillTop(raw, now) ==
    LET r == SetDefault(SetDefault(SetDefault(raw, "updated_at", now),
                                   "active_vehicle_id", SeedId),
                        "vehicles", PyList(<<>>))
    IN IF ~Truthy(Item(r, "vehicles"))
       THEN Put(r, "vehicles", Item(default_data(now), "vehicles"))
       ELSE r

\* data_store.load_data() on the file f at clock reading now
load_data(f, now) ==
    IF ~f.exists THEN default_data(now)
    ELSE LET p == Loads(f.text)
             raw == p.val
         IN IF ~p.ok THEN default_data(now)
            ELSE IF raw.t = "list" THEN LegacyDocument(raw, now)
            ELSE IF SchemaRecognised(raw)
            THEN LET r == BackfillTop(raw, now)
                     vs == Item(r, "vehicles")
                 IN IF VehiclesLoopRaises(vs) THEN default_data(now)
                    ELSE Put(r, "vehicles", BackfillVehicles(vs))
            ELSE default_data(now)

\* maxine_mods.load_data(): the same loader in the single-file program
load_data_mono(f, now) ==
    IF ~f.exists THEN default_data(now)
    ELSE LET p == Loads(f.text)
             raw == p.val
         IN IF ~p.ok THEN default_data(now)
            ELSE IF raw.t = "list"
            THEN Put(default_data(now), "vehicles",
                     PyList(<<Put(SeedVehicle, "items", raw)>>))
            ELSE IF SchemaRecognised(raw)
            THEN LET r1 == IF \/ ~Has(raw, "vehicles")
                              \/ Item(raw, "vehicles").t # "list"
                              \/ ~Truthy(Item(raw, "vehicles"))
                           THEN Put(raw, "vehicles", PyList(<<SeedVehicle>>))
                           ELSE raw
                     first == Item(r1, "vehicles").c[1]
                 IN IF ~Has(r1, "active_vehicle_id") /\ first.t # "dict"
                    THEN default_data(now)
                    ELSE LET r2 == IF Has(r1, "active_vehicle_id") THEN r1
                                   ELSE Put(r1, "active_vehicle_id",
                                            IF Has(first, "id")
                                            THEN Item(first, "id") ELSE SeedId)
                             r3 == SetDefault(r2, "updated_at", now)
                             vs == Item(r3, "vehicles")
                         IN IF VehiclesLoopRaises(vs) THEN default_data(now)
                            ELSE Put(r3, "vehicles", BackfillVehicles(vs))
            ELSE default_data(now)

----------------------------------------------------------------------------
(* data_store.py: the settings store *)

DEFAULT_THEME == PyStr("dark")
DEFAULT_UI_SCALE == PyFrac(1, "45")

default_settings(now) ==
    PyDict(<<"schema", "theme", "ui_scale", "font_family", "font_size",
             "autosave_ms", "car_mode", "updated_at">>,
           <<PyInt(1), DEFAULT_THEME, py_float(DEFAULT_UI_SCALE),
             PyStr("Segoe UI"), PyInt(13), PyInt(20000), PyBool(FALSE), now>>)

RECURSIVE MergeEvery(_, _, _)
\* (faulty variant: every key of the file is taken over)
MergeEvery(d, raw, i) ==
    IF i > Len(raw.k) THEN d
    ELSE MergeEvery(Put(d, raw.k[i], raw.c[i]), raw, i + 1)
RECURSIVE MergeKnown(_, _, _)
\* "for k in d.keys(): if k in raw: d[k] = raw[k]", from the i-th key of d
MergeKnown(d, raw, i) ==
    IF i > Len(d.k) THEN d
    ELSE MergeKnown(IF Has(raw, d.k[i]) THEN Put(d, d.k[i], Item(raw, d.k[i]))
                    ELSE d,
                    raw, i + 1)

\* (faulty variant: the theme is taken as stored)
SanitizeThemeSkipped(d) == d
\* if d["theme"] not in ("dark", "light"): d["theme"] = DEFAULT_THEME
SanitizeTheme(d) ==
    IF \/ PyEq(Item(d, "theme"), PyStr("dark"))
       \/ PyEq(Item(d, "theme"), PyStr("light"))
    THEN d
    ELSE Put(d, "theme", DEFAULT_THEME)

\* d["ui_scale"] = float(d["ui_scale"]), the default where float() raises
SanitizeScale(d) ==
    Put(d, "ui_scale",
        IF FloatRaises(Item(d, "ui_scale")) THEN py_float(DEFAULT_UI_SCALE)
        ELSE py_float(Item(d, "ui_scale")))

\* (faulty variant: a value int() rejects is kept)
SanitizeAutosaveKept(d) ==
    IF IntRaises(Item(d, "autosave_ms")) THEN d
    ELSE Put(d, "autosave_ms", PyInt(py_int(Item(d, "autosave_ms"))))
\* d["autosave_ms"] = int(d["autosave_ms"]), 20_000 where int() raises
SanitizeAutosave(d) ==
    Put(d, "autosave_ms",
        IF IntRaises(Item(d, "autosave_ms")) THEN PyInt(20000)
        ELSE PyInt(py_int(Item(d, "autosave_ms"))))

\* d["car_mode"] = bool(d.get("car_mode", False))
SanitizeCarMode(d) ==
    Put(d, "car_mode",
        PyBool(Truthy(IF Has(d, "car_mode") THEN Item(d, "car_mode")
                      ELSE PyBool(FALSE))))

\* data_store.load_settings() on the file f at clock reading now
load_settings(f, now) ==
    IF ~f.exists THEN default_settings(now)
    ELSE LET p == Loads(f.text)
             raw == p.val
         IN IF ~p.ok THEN default_settings(now)
            ELSE IF SchemaRecognised(raw)
            THEN LET d == Put(MergeKnown(default_settings(now), raw, 1),
                              "updated_at", now)
                 IN SanitizeCarMode(SanitizeAutosave(SanitizeScale(
                        SanitizeTheme(d))))
            ELSE default_settings(now)

----------------------------------------------------------------------------
(* ui_main.py: ModTrackerApp *)

RECURSIVE ScanVehicles(_, _, _)
\* the loop "for v in vehicles: if v.get("id") == vid: return v" from entry i:
\* the index of the first match, 0 where v.get raises, -1 when the loop ends
ScanVehicles(c, vid, i) ==
    IF i > Len(c) THEN -1
    ELSE IF c[i].t # "dict" THEN 0
    ELSE IF PyEq(Get(c[i], "id"), vid) THEN i
    ELSE ScanVehicles(c, vid, i + 1)

\* (faulty variant: always the first vehicle)
get_active_vehicle_first(d) ==
    IF d.t = "dict" /\ Has(d, "vehicles") /\ Item(d, "vehicles").t = "list"
       /\ Len(Item(d, "vehicles").c) > 0
    THEN 1 ELSE 0
\* _get_active_vehicle(): the index of the vehicle returned, 0 where it raises
get_active_vehicle(d) ==
    IF d.t # "dict" THEN 0
    ELSE LET vs == IF Has(d, "vehicles") THEN Item(d, "vehicles") ELSE PyList(<<>>)
             hit == CASE vs.t = "list" ->
                            ScanVehicles(vs.c, Get(d, "active_vehicle_id"), 1)
                      [] vs.t = "dict" -> IF Len(vs.k) > 0 THEN 0 ELSE -1
                      [] vs.t = "str" -> IF vs.s # "" THEN 0 ELSE -1
                      [] OTHER -> 0
         IN IF hit >= 0 THEN hit
            ELSE IF Has(d, "vehicles") /\ vs.t = "list" /\ Len(vs.c) > 0 THEN 1
            ELSE 0

\* ModTrackerApp.maintenance of vehicle i
MaintenanceOf(d, i) ==
    IF Has(Item(d, "vehicles").c[i], "maintenance")
    THEN Item(Item(d, "vehicles").c[i], "maintenance")
    ELSE PyList(<<>>)

\* f"{n:,}": the decimal text of n with thousands separators
Grouped(n) == Val("str", "{:,}", n, <<>>, <<>>)

\* f"OVERDUE {n:,}"
Overdue(n) == Val("str", "OVERDUE {:,}", n, <<>>, <<>>)

\* (faulty variant: the difference is shown with its sign)
RemainingSigned(due_val, cur) ==
    IF cur.t \in {"int", "bool"} THEN Grouped(due_val - cur.n) ELSE PyStr("")
\* the remaining column: empty unless isinstance(cur, int); the difference
\* due_val - cur, or OVERDUE and its absolute value when it is negative
Remaining(due_val, cur) ==
    IF cur.t \in {"int", "bool"}
    THEN IF due_val - cur.n >= 0 THEN Grouped(due_val - cur.n)
         ELSE Overdue(cur.n - due_val)
    ELSE PyStr("")

\* (faulty variant: a task without an interval is due at its last service)
DueRowIntervalOptional(m, cur) ==
    LET last == py_str(IF Has(m, "last_miles") THEN Item(m, "last_miles")
                       ELSE PyStr(""))
    IN IF Strip(last) = "" \/ ~IntParses(normalize_int(last))
       THEN [due |-> PyStr(""), remaining |-> PyStr("")]
       ELSE [due |-> Grouped(IntLiteral[normalize_int(last)]),
             remaining |-> Remaining(IntLiteral[normalize_int(last)], cur)]
\* the due and remaining columns of the row of task m: both empty when a
\* text is blank or int() raises (the except clause), else the sum and what
\* Remaining makes of it
DueRow(m, cur) ==
    LET last == py_str(IF Has(m, "last_miles") THEN Item(m, "last_miles")
                       ELSE PyStr(""))
        interval == py_str(IF Has(m, "interval_miles")
                           THEN Item(m, "interval_miles") ELSE PyStr(""))
    IN IF Strip(last) = "" \/ Strip(interval) = ""
       THEN [due |-> PyStr(""), remaining |-> PyStr("")]
       ELSE IF \/ ~IntParses(normalize_int(last))
               \/ ~IntParses(normalize_int(interval))
       THEN [due |-> PyStr(""), remaining |-> PyStr("")]
       ELSE LET due_val == IntLiteral[normalize_int(last)]
                           + IntLiteral[normalize_int(interval)]
            IN [due |-> Grouped(due_val), remaining |-> Remaining(due_val, cur)]

\* "for idx, m in enumerate(self.maintenance): m.get(...)" raises: the value
\* is not iterable or yields something that is no dict
RefreshRaises(ms) ==
    CASE ms.t = "list" -> \E i \in 1..Len(ms.c) : ms.c[i].t # "dict"
      [] ms.t = "dict" -> Len(ms.k) > 0
      [] ms.t = "str" -> ms.s # ""
      [] OTHER -> TRUE

RECURSIVE Rows(_, _, _)
\* the rows inserted from task i on, up to the end or to the task that raises
Rows(c, cur, i) ==
    IF i > Len(c) THEN <<>>
    ELSE IF c[i].t # "dict" THEN <<>>
    ELSE <<DueRow(c[i], cur)>> \o Rows(c, cur, i + 1)

\* _refresh_maintenance_list(): the table is emptied and filled again
refresh_maintenance_list(d, i) ==
    LET ms == MaintenanceOf(d, i)
    IN IF ms.t = "list"
       THEN Rows(ms.c, Get(Item(d, "vehicles").c[i], "current_mileage"), 1)
       ELSE <<>>

NoWrite == [tmp |-> "", text |-> <<>>, pos |-> 0, err |-> FALSE, kept |-> FALSE,
            old |-> NoFile, caller |-> ""]

WritePcs == {"mkstemp", "dump", "replace", "cleanup"}

\* ModTrackerApp.items of the active vehicle
Vehicles(d) == Item(d, "vehicles").c
ItemsOf(d, i) == Get(Vehicles(d)[i], "items")

\* the document with field key of vehicle i set to v
WithVehicleField(d, i, key, v) ==
    Put(d, "vehicles",
        PyList([Vehicles(d) EXCEPT ![i] = Put(@, key, v)]))

\* __init__ raises: in _get_active_vehicle, or in the _refresh_all that fills
\* the maintenance table
StartRaises(d, v) ==
    IF v = 0 THEN TRUE ELSE RefreshRaises(MaintenanceOf(d, v))

\* no ItemEditor window is open
NoEditor == [open |-> FALSE, idx |-> 0, aliased |-> FALSE,
             attachments |-> PyList(<<>>), item |-> PyNone]

\* ModTrackerApp.__init__: load the settings and the document, resolve the
\* active vehicle, fill the maintenance table and schedule the first
\* autosave tick
Start ==
    /\ pc \in {"boot", "closed"}
    /\ pc = "closed" => clock < MaxClock
    /\ data' = IF variant = "modular"
               THEN load_data(fs[DATA_FILE], now_iso)
               ELSE load_data_mono(fs[DATA_FILE], now_iso)
    /\ vehicle' = get_active_vehicle(data')
    /\ settings' = IF variant = "modular"
                   THEN load_settings(fs[SETTINGS_FILE], now_iso)
                   ELSE settings
    /\ tree_maint' = IF vehicle' = 0 THEN <<>>
                     ELSE refresh_maintenance_list(data', vehicle')
    /\ pc' = IF StartRaises(data', vehicle') THEN "failed" ELSE "idle"
    /\ outcome' = IF StartRaises(data', vehicle') THEN "error" ELSE "started"
    /\ dirty' = FALSE
    /\ last_saved_at' = PyNone
    /\ wr' = NoWrite
    /\ before' = PyNone
    /\ clock' = IF pc = "closed" THEN clock + 1 ELSE clock
    /\ editor' = NoEditor
    /\ autosave_pending' = ~StartRaises(data', vehicle')
    /\ UNCHANGED <<fs, variant, assets, faults>>

\* (faulty variant: the stamp goes under another key)
StampWrongKey(d, now) == Put(d, "updated", now)
\* save_data's first statement: data["updated_at"] = now_iso()
Stamp(d, now) == Put(d, "updated_at", now)

\* (faulty variant: the document is handed to the writer before the stamp)
WrittenUnstamped(d, now) == Dump(d)
\* the text save_data has safe_write_json write: the dump of the document
\* as it is after the stamp
Written(d, now) == Dump(Stamp(d, now))

\* _save(force) on the document d the handler has built, with the dirty flag
\* the handler has left: return at once, or enter save_data, which stamps the
\* document and calls safe_write_json (whose mkdir finds the directory there)
Save(d, isDirty, force, caller) ==
    /\ dirty' = isDirty
    /\ IF ~isDirty /\ ~force
       THEN /\ data' = d
            /\ pc' = "idle"
            /\ outcome' = "unsaved"
            /\ UNCHANGED <<wr, before>>
       ELSE /\ before' = d
            /\ data' = Stamp(d, now_iso)
            /\ wr' = [NoWrite EXCEPT !.text = Written(d, now_iso),
                                     !.old = fs[DATA_FILE], !.caller = caller]
            /\ pc' = "mkstemp"
            /\ outcome' = "saving"

\* the main loop dispatches one event to its handler
Dispatch ==
    /\ pc = "idle"
    /\ clock < MaxClock
    /\ clock' = clock + 1

\* add_item with the form holding name, mileage and cost
add_item(name, mileage, cost) ==
    /\ Dispatch
    /\ IF \/ name = ""
          \/ mileage # "" /\ ~IntParses(normalize_int(mileage))
          \/ cost # "" /\ ~FloatParses(normalize_money(cost))
       THEN /\ outcome' = "invalid"
            /\ UNCHANGED <<fs, data, vehicle, dirty, last_saved_at, pc, wr,
                           variant, editor, assets, autosave_pending, settings,
                           tree_maint, faults, before>>
       ELSE /\ ItemsOf(data, vehicle).t = "list"
            /\ LET item == PyDict(
                       <<"date", "name", "category", "status", "scope", "mileage",
                         "cost", "notes", "attachments", "created_at", "updated_at">>,
                       <<today_str, PyStr(name), PyStr("Other"), PyStr("Installed"),
                         PyStr("Full car"), PyStr(mileage), PyStr(cost), PyStr(""),
                         PyList(<<>>), now_iso, now_iso>>)
                   items == PyList(Append(ItemsOf(data, vehicle).c, item))
               IN Save(WithVehicleField(data, vehicle, "items", items),
                       TRUE, FALSE, "add_item")
            /\ UNCHANGED <<fs, vehicle, last_saved_at, variant, editor, assets,
                           autosave_pending, settings, tree_maint, faults>>

\* set_current_mileage with the entry holding s
set_current_mileage(s) ==
    /\ Dispatch
    /\ IF s # "" /\ ~IntParses(normalize_int(s))
       THEN /\ outcome' = "invalid"
            /\ UNCHANGED <<fs, data, vehicle, dirty, last_saved_at, pc, wr,
                           variant, editor, assets, autosave_pending, settings,
                           tree_maint, faults, before>>
       ELSE /\ Save(WithVehicleField(data, vehicle, "current_mileage",
                                     IF s = "" THEN PyNone
                                     ELSE PyInt(IntLiteral[normalize_int(s)])),
                    TRUE, FALSE, "set_current_mileage")
            /\ UNCHANGED <<fs, vehicle, last_saved_at, variant, editor, assets,
                           autosave_pending, settings, tree_maint, faults>>

\* (faulty variant: only the task name is checked)
MaintenanceRejectedNameOnly(task, last_miles, interval) == task = ""
\* add_maintenance shows an error and returns: no task name, or a mileage
\* or an interval that is not blank and that int() rejects
MaintenanceRejected(task, last_miles, interval) ==
    \/ task = ""
    \/ last_miles # "" /\ ~IntParses(normalize_int(last_miles))
    \/ interval # "" /\ ~IntParses(normalize_int(interval))

\* add_maintenance with the form holding task, last_miles and interval
add_maintenance(task, last_miles, interval) ==
    /\ Dispatch
    /\ IF MaintenanceRejected(task, last_miles, interval)
       THEN /\ outcome' = "invalid"
            /\ UNCHANGED <<fs, data, vehicle, dirty, last_saved_at, pc, wr,
                           variant, editor, assets, autosave_pending, settings,
                           tree_maint, faults, before>>
       ELSE /\ MaintenanceOf(data, vehicle).t = "list"
            /\ LET m == PyDict(
                       <<"task", "last_date", "last_miles", "interval_miles",
                         "notes", "created_at", "updated_at">>,
                       <<PyStr(task), today_str, PyStr(last_miles),
                         PyStr(interval), PyStr(""), now_iso, now_iso>>)
                   ms == PyList(Append(MaintenanceOf(data, vehicle).c, m))
               IN Save(WithVehicleField(data, vehicle, "maintenance", ms),
                       TRUE, FALSE, "add_maintenance")
            /\ UNCHANGED <<fs, vehicle, last_saved_at, variant, editor, assets,
                           autosave_pending, settings, tree_maint, faults>>

\* (faulty variant: a missing mileage does not stop the handler)
MileageMissingIgnored(cur) == FALSE
\* mark_maintenance_done's test "cur is None"
MileageMissing(cur) == cur.t = "null"

\* mark_maintenance_done with row sel of the table selected (0: no row, or
\* more than one); the table's row sel is task number sel of the list
mark_maintenance_done(sel) ==
    /\ Dispatch
    /\ LET cur == Get(Vehicles(data)[vehicle], "current_mileage")
           ms == MaintenanceOf(data, vehicle)
       IN IF sel = 0 \/ MileageMissing(cur)
          THEN /\ outcome' = IF sel = 0 THEN "no_selection" ELSE "no_mileage"
               /\ UNCHANGED <<fs, data, vehicle, dirty, last_saved_at, pc, wr,
                              variant, editor, assets, autosave_pending,
                              settings, tree_maint, faults, before>>
          ELSE IF ms.t # "list" \/ sel > Len(ms.c)
          THEN /\ outcome' = "error"
               /\ UNCHANGED <<fs, data, vehicle, dirty, last_saved_at, pc, wr,
                              variant, editor, assets, autosave_pending,
                              settings, tree_maint, faults, before>>
          ELSE /\ LET m == Put(Put(Put(ms.c[sel], "last_date", today_str),
                                   "last_miles", PyStr(py_str(cur))),
                               "updated_at", now_iso)
                  IN Save(WithVehicleField(data, vehicle, "maintenance",
                                           PyList([ms.c EXCEPT ![sel] = m])),
                          TRUE, FALSE, "mark_maintenance_done")
               /\ UNCHANGED <<fs, vehicle, last_saved_at, variant, editor,
                              assets, autosave_pending, settings, tree_maint,
                              faults>>

RECURSIVE Ascending(_)
RECURSIVE Descending(_)
\* (faulty variant: the indices are taken lowest first)
Ascending(S) ==
    IF S = {} THEN <<>>
    ELSE LET m == CHOOSE x \in S : \A y \in S : x <= y
         IN <<m>> \o Ascending(S \ {m})
\* sorted([int(i) for i in selected], reverse=True)
Descending(S) ==
    IF S = {} THEN <<>>
    ELSE LET m == CHOOSE x \in S : \A y \in S : x >= y
         IN <<m>> \o Descending(S \ {m})

RECURSIVE PopEach(_, _)
\* "for i in idxs: if 0 <= i < len(self.items): self.items.pop(i)" on the
\* list c; the indices count from 0
PopEach(c, idxs) ==
    IF idxs = <<>> THEN c
    ELSE LET i == Head(idxs)
         IN PopEach(IF 0 <= i /\ i < Len(c)
                    THEN SubSeq(c, 1, i) \o SubSeq(c, i + 2, Len(c))
                    ELSE c,
                    Tail(idxs))

\* delete_selected_mod with the rows whose ids are in selected chosen in the
\* table (the ids are the indices the entries had when the table was last
\* filled) and the answer to the question box
delete_selected_mod(selected, yes) ==
    /\ Dispatch
    /\ IF selected = {} \/ ~yes
       THEN /\ outcome' = IF selected = {} THEN "no_selection" ELSE "declined"
            /\ UNCHANGED <<data, dirty, pc, wr, before>>
       ELSE /\ ItemsOf(data, vehicle).t = "list"
            /\ Save(WithVehicleField(
                        data, vehicle, "items",
                        PyList(PopEach(ItemsOf(data, vehicle).c,
                                       Descending(selected)))),
                    TRUE, FALSE, "delete_selected_mod")
    /\ UNCHANGED <<fs, vehicle, last_saved_at, variant, editor, assets,
                   autosave_pending, settings, tree_maint, faults>>

\* delete_maintenance, likewise, on the maintenance table
delete_maintenance(selected, yes) ==
    /\ Dispatch
    /\ IF selected = {} \/ ~yes
       THEN /\ outcome' = IF selected = {} THEN "no_selection" ELSE "declined"
            /\ UNCHANGED <<data, dirty, pc, wr, before>>
       ELSE /\ MaintenanceOf(data, vehicle).t = "list"
            /\ Save(WithVehicleField(
                        data, vehicle, "maintenance",
                        PyList(PopEach(MaintenanceOf(data, vehicle).c,
                                       Descending(selected)))),
                    TRUE, FALSE, "delete_maintenance")
    /\ UNCHANGED <<fs, vehicle, last_saved_at, variant, editor, assets,
                   autosave_pending, settings, tree_maint, faults>>

\* the "Save now" button: _save(force=True)
save_now ==
    /\ Dispatch
    /\ Save(data, dirty, TRUE, "save_now")
    /\ UNCHANGED <<fs, vehicle, last_saved_at, variant, editor, assets,
                   autosave_pending, settings, tree_maint, faults>>

\* whether the after() call that follows _save(force=False) has been
\* reached when the handler starts its save: only when _save returned at once
ScheduledAfterSave(saved) == ~saved

\* _autosave_tick, run by the timer: _save(force=False), then after() for
\* the next tick (reached at once when nothing is saved, and at the end of
\* a write that succeeds: see Return)
autosave_tick ==
    /\ Dispatch
    /\ autosave_pending
    /\ Save(data, dirty, FALSE, "autosave")
    /\ autosave_pending' = ScheduledAfterSave(dirty)
    /\ UNCHANGED <<fs, vehicle, last_saved_at, variant, editor, assets,
                   settings, tree_maint, faults>>

\* _on_close: _save(force=True), then destroy()
on_close ==
    /\ Dispatch
    /\ Save(data, dirty, TRUE, "close")
    /\ UNCHANGED <<fs, vehicle, last_saved_at, variant, editor, assets,
                   autosave_pending, settings, tree_maint, faults>>

----------------------------------------------------------------------------
(* The item editor and its attachments *)

\* the files the file dialog can return
SourcePaths == {"/a/strut.jpg", "/b/strut.jpg", "/a/bill.pdf"}

\* f"{name}_{stamp}{ext}" under the assets folder, for the stem and the
\* suffix of p: in the text "@" stands for the stamp and "#" for the "_{i}"
\* that follows it
DestText(p) ==
    IF p = "/a/bill.pdf" THEN "assets/bill_@#.pdf" ELSE "assets/strut_@#.jpg"

\* candidate number i of unique_dest_path for the source p in second sec:
\* number 0 is the name without "_{i}". The numeric payload holds the stamp
\* and i, as sec * 100 + i (i stays below 100)
Candidate(p, sec, i) == Val("str", DestText(p), sec * 100 + i, <<>>, <<>>)

\* os.path.basename of a path
basename(v) ==
    [v EXCEPT !.s = CASE v.s = "assets/bill_@#.pdf" -> "bill_@#.pdf"
                      [] v.s = "assets/strut_@#.jpg" -> "strut_@#.jpg"
                      [] v.s = "/a/bill.pdf" -> "bill.pdf"
                      [] v.s \in {"/a/strut.jpg", "/b/strut.jpg"} -> "strut.jpg"
                      [] OTHER -> v.s]

RECURSIVE FirstFree(_, _, _, _)
\* the while loop of unique_dest_path: the first candidate from number i on
\* that does not exist in the folder
FirstFree(dir, p, sec, i) ==
    IF Candidate(p, sec, i) \in dir THEN FirstFree(dir, p, sec, i + 1)
    ELSE Candidate(p, sec, i)

\* (faulty variant: the first candidate is returned without a look at the
\* folder)
unique_dest_path_unseen(dir, p) == Candidate(p, now_iso.n, 0)
\* unique_dest_path(dest_folder, src_path); the stamp is now_iso() without
\* its separators, that is the second
unique_dest_path(dir, p) == FirstFree(dir, p, now_iso.n, 0)

\* (faulty variant: the record always names the destination)
final_path_dest(p, dest, copied) == dest
\* final_path of _add_files: the destination when the copy went through,
\* the source path when the box is not ticked or when the try block raised
final_path(p, dest, copied) == IF copied THEN dest ELSE PyStr(p)

\* the record _add_files appends
Attachment(kind, path) ==
    PyDict(<<"kind", "path", "label", "added_at">>,
           <<PyStr(kind), path, basename(path), now_iso>>)

RECURSIVE AddFiles(_, _, _, _)
\* the for loop of _add_files from path number i on, on the list atts and
\* the assets folder dir. sel.copy is the "copy into assets" box, sel.fails
\* the numbers of the paths for which unique_dest_path or shutil.copy2
\* raises, sel.left whether a copy that raises leaves the part it wrote
AddFiles(sel, i, atts, dir) ==
    IF i > Len(sel.paths) THEN [atts |-> atts, dir |-> dir]
    ELSE LET p == sel.paths[i]
             dest == unique_dest_path(dir, p)
             copied == sel.copy /\ i \notin sel.fails
             written == IF copied \/ (sel.copy /\ sel.left) THEN {dest}
                        ELSE {}
         IN AddFiles(sel, i + 1,
                     Append(atts,
                            Attachment(sel.kind, final_path(p, dest, copied))),
                     dir \cup written)

\* the document with item idx of vehicle v replaced
WithItem(d, v, idx, item) ==
    WithVehicleField(d, v, "items",
                     PyList([ItemsOf(d, v).c EXCEPT ![idx] = item]))

\* ItemEditor.attachments: the list the editor appends to and pops from. It
\* is the list object of the document's item when the editor took it over
\* as it was (self.item.get("attachments", [])), and its own list otherwise
EditorAttachments ==
    IF editor.aliased
    THEN Get(ItemsOf(data, vehicle).c[editor.idx], "attachments")
    ELSE editor.attachments

\* an in-place change of ItemEditor.attachments to the list atts
SetAttachments(atts) ==
    IF editor.aliased
    THEN /\ data' = WithItem(data, vehicle, editor.idx,
                             Put(ItemsOf(data, vehicle).c[editor.idx],
                                 "attachments", PyList(atts)))
         /\ UNCHANGED editor
    ELSE /\ editor' = [editor EXCEPT !.attachments = PyList(atts)]
         /\ UNCHANGED data

\* ItemEditor.__init__ keeps the item's own list: ui_editors.py reads
\* self.item.get("attachments", []) from the shallow copy dict(item), where
\* maxine_mods.py copies it with list(...)
TakesListOver(item) ==
    /\ variant = "modular"
    /\ Has(item, "attachments")
    /\ Get(item, "attachments").t = "list"

\* edit_selected_mod with row sel of the table selected (0: no row, or more
\* than one): ItemEditor(self, self.items[idx], on_save), whose __init__
\* ends with grab_set()
edit_selected_mod(sel) ==
    /\ Dispatch
    /\ ~editor.open
    /\ ItemsOf(data, vehicle).t = "list"
    /\ IF sel = 0 \/ sel > Len(ItemsOf(data, vehicle).c)
       THEN /\ outcome' = "no_selection"
            /\ UNCHANGED editor
       ELSE LET item == ItemsOf(data, vehicle).c[sel]
                att == Get(item, "attachments")
            IN /\ editor' = [open |-> TRUE, idx |-> sel,
                             aliased |-> TakesListOver(item),
                             attachments |->
                                 IF att.t = "list" /\ ~TakesListOver(item)
                                 THEN att ELSE PyList(<<>>),
                             item |-> item]
               /\ outcome' = "editing"
    /\ UNCHANGED <<fs, data, vehicle, dirty, last_saved_at, pc, wr, variant,
                   assets, autosave_pending, settings, tree_maint, faults,
                   before>>

\* _add_files with the dialog returning sel.paths
editor_add_files(sel) ==
    /\ Dispatch
    /\ editor.open
    /\ faults + Cardinality(sel.fails) <= MaxFaults
    /\ faults' = faults + Cardinality(sel.fails)
    /\ IF sel.paths = <<>>
       THEN /\ outcome' = "no_selection"
            /\ UNCHANGED <<data, editor, assets>>
       ELSE LET r == AddFiles(sel, 1, EditorAttachments.c, assets)
            IN /\ SetAttachments(r.atts)
               /\ assets' = r.dir
               /\ outcome' = "files_added"
    /\ UNCHANGED <<fs, vehicle, dirty, last_saved_at, pc, wr, variant,
                   autosave_pending, settings, tree_maint, before>>

\* (faulty variant: the file the record names is deleted with it)
RemovedFilesUnlinked(att) == {Get(att, "path")}
\* the files _remove_selected deletes: none
RemovedFiles(att) == {}

\* _remove_selected with row sel of the list box selected (0: none) and the
\* answer to the question box
editor_remove_selected(sel, yes) ==
    /\ Dispatch
    /\ editor.open
    /\ IF sel = 0 \/ ~yes
       THEN /\ outcome' = IF sel = 0 THEN "no_selection" ELSE "declined"
            /\ UNCHANGED <<data, editor, assets>>
       ELSE LET atts == EditorAttachments.c
            IN /\ SetAttachments(SubSeq(atts, 1, sel - 1)
                                 \o SubSeq(atts, sel + 1, Len(atts)))
               /\ assets' = assets \ RemovedFiles(atts[sel])
               /\ outcome' = "removed"
    /\ UNCHANGED <<fs, vehicle, dirty, last_saved_at, pc, wr, variant,
                   autosave_pending, settings, tree_maint, faults, before>>

\* what a form field of the editor holds when the user has left it alone:
\* self.item.get(key, default)
FormValue(key, default) ==
    IF Has(editor.item, key) THEN Get(editor.item, key) ELSE default

\* the dict "updated" that ItemEditor._save builds from the form
Updated(name, mileage, cost) ==
    LET date == FormValue("date", today_str)
        notes == FormValue("notes", PyStr(""))
    IN PyDict(
           <<"date", "name", "category", "status", "scope", "mileage",
             "cost", "notes", "attachments", "updated_at">>,
           <<IF date = PyStr("") THEN today_str ELSE date,
             PyStr(name),
             FormValue("category", PyStr(IF variant = "modular"
                                         THEN "Suspension" ELSE "Exhaust")),
             FormValue("status", PyStr(IF variant = "modular"
                                       THEN "Planned" ELSE "Installed")),
             FormValue("scope", PyStr("Full car")),
             PyStr(mileage), PyStr(cost),
             IF notes.t = "str" THEN notes ELSE PyStr(""),
             EditorAttachments, now_iso>>)

\* ItemEditor._save with name, mileage and cost in the form, and the on_save
\* of edit_selected_mod that it calls: self.items[idx] = updated (the item
\* now holds the editor's list itself), _mark_dirty(), _save(force=False).
\* _refresh_mod_lists() and the editor's destroy() follow a save that does
\* not raise (see Return)
editor_save(name, mileage, cost) ==
    /\ Dispatch
    /\ editor.open
    /\ IF \/ name = ""
          \/ mileage # "" /\ ~IntParses(normalize_int(mileage))
          \/ cost # "" /\ ~FloatParses(normalize_money(cost))
       THEN /\ outcome' = "invalid"
            /\ UNCHANGED <<data, dirty, pc, wr, editor, before>>
       ELSE /\ Save(WithItem(data, vehicle, editor.idx,
                             Updated(name, mileage, cost)),
                    TRUE, FALSE, "editor_save")
            /\ editor' = [editor EXCEPT !.aliased = TRUE,
                                        !.attachments = PyList(<<>>)]
    /\ UNCHANGED <<fs, vehicle, last_saved_at, variant, assets,
                   autosave_pending, settings, tree_maint, faults>>

\* Cancel, or Escape: destroy()
editor_cancel ==
    /\ Dispatch
    /\ editor.open
    /\ editor' = NoEditor
    /\ outcome' = "cancelled"
    /\ UNCHANGED <<fs, data, vehicle, dirty, last_saved_at, pc, wr, variant,
                   assets, autosave_pending, settings, tree_maint, faults,
                   before>>

----------------------------------------------------------------------------
(* safe_write_json, one file operation per step *)

FreeTmp == {t \in TmpNames : ~fs[t].exists}

\* (faulty variant: the destination itself is opened for writing)
DumpTargetDirect == DATA_FILE
\* the file json.dump writes to: os.fdopen(fd, "w") of the mkstemp descriptor
DumpTarget == wr.tmp

\* tempfile.mkstemp creates an empty file under a name not in use (which of
\* the free names it takes makes no difference to anything that follows)
mkstemp_ok ==
    /\ pc = "mkstemp"
    /\ FreeTmp # {}
    /\ LET t == CHOOSE n \in FreeTmp : TRUE
       IN /\ fs' = [fs EXCEPT ![t] = FileOf(<<>>)]
          /\ wr' = [wr EXCEPT !.tmp = t]
    /\ pc' = "dump"
    /\ UNCHANGED <<data, vehicle, dirty, last_saved_at, clock, outcome,
                   variant, editor, assets, autosave_pending, settings,
                   tree_maint, faults, before>>

\* (faulty variant: _on_close destroys the window also when its save raised)
RaiseDestroys ==
    /\ pc' = IF wr.caller = "close" THEN "closed" ELSE "idle"
    /\ outcome' = "write_error"
    /\ UNCHANGED <<data, vehicle, dirty, last_saved_at, clock, variant, editor,
                   assets, autosave_pending, settings, tree_maint, before>>
\* the exception of a failed call leaves the handler: Tk reports it and the
\* main loop goes on
Raise ==
    /\ pc' = "idle"
    /\ outcome' = "write_error"
    /\ UNCHANGED <<data, vehicle, dirty, last_saved_at, clock, variant, editor,
                   assets, autosave_pending, settings, tree_maint, before>>

\* tempfile.mkstemp raises (the directory is not writable): no temp file,
\* the error leaves safe_write_json before its try block
mkstemp_fail ==
    /\ pc = "mkstemp"
    /\ faults < MaxFaults
    /\ faults' = faults + 1
    /\ wr' = [NoWrite EXCEPT !.err = TRUE]
    /\ Raise
    /\ UNCHANGED fs

\* json.dump: the next block of the text reaches the file; leaving the with
\* block after the last one closes it
dump_chunk ==
    /\ pc = "dump"
    /\ LET n == IF Len(wr.text) - wr.pos < ChunkTokens
                THEN Len(wr.text) - wr.pos ELSE ChunkTokens
           to == wr.pos + n
       IN /\ fs' = [fs EXCEPT ![DumpTarget] =
                      FileOf(IF wr.pos = 0 THEN SubSeq(wr.text, 1, to)
                             ELSE @.text \o SubSeq(wr.text, wr.pos + 1, to))]
          /\ wr' = [wr EXCEPT !.pos = to]
          /\ pc' = IF to = Len(wr.text) THEN "replace" ELSE "dump"
    /\ UNCHANGED <<data, vehicle, dirty, last_saved_at, clock, outcome,
                   variant, editor, assets, autosave_pending, settings,
                   tree_maint, faults, before>>

\* a write raises (disk full): control goes to the finally block
dump_fail ==
    /\ pc = "dump"
    /\ faults < MaxFaults
    /\ faults' = faults + 1
    /\ wr' = [wr EXCEPT !.err = TRUE]
    /\ pc' = "cleanup"
    /\ UNCHANGED <<fs, data, vehicle, dirty, last_saved_at, clock, outcome,
                   variant, editor, assets, autosave_pending, settings,
                   tree_maint, before>>

\* os.replace(tmp_path, path): the rename, atomic
replace_ok ==
    /\ pc = "replace"
    /\ fs' = [fs EXCEPT ![DATA_FILE] = fs[wr.tmp], ![wr.tmp] = NoFile]
    /\ pc' = "cleanup"
    /\ UNCHANGED <<data, vehicle, dirty, last_saved_at, clock, wr, outcome,
                   variant, editor, assets, autosave_pending, settings,
                   tree_maint, faults, before>>

\* os.replace raises
replace_fail ==
    /\ pc = "replace"
    /\ faults < MaxFaults
    /\ faults' = faults + 1
    /\ wr' = [wr EXCEPT !.err = TRUE]
    /\ pc' = "cleanup"
    /\ UNCHANGED <<fs, data, vehicle, dirty, last_saved_at, clock, outcome,
                   variant, editor, assets, autosave_pending, settings,
                   tree_maint, before>>

\* the handlers that end with _refresh_maintenance_list()
RefreshingCallers ==
    {"add_maintenance", "mark_maintenance_done", "set_current_mileage",
     "delete_maintenance"}

\* the end of the call: the pending error is raised again, or _save goes on
\* (last_saved_at, dirty) and the handler after it: the table is filled
\* again, or, for _on_close, destroy() follows
Return(kept) ==
    /\ wr' = [NoWrite EXCEPT !.tmp = wr.tmp, !.err = wr.err, !.kept = kept]
    /\ IF wr.err
       THEN Raise
       ELSE /\ last_saved_at' = now_iso
            /\ dirty' = FALSE
            /\ outcome' = "saved"
            /\ pc' = IF wr.caller = "close" THEN "closed" ELSE "idle"
            /\ tree_maint' = IF wr.caller \in RefreshingCallers
                             THEN refresh_maintenance_list(data, vehicle)
                             ELSE tree_maint
            /\ editor' = IF wr.caller = "editor_save" THEN NoEditor
                         ELSE editor
            /\ autosave_pending' = IF wr.caller = "autosave" THEN TRUE
                                   ELSE autosave_pending
            /\ UNCHANGED <<data, vehicle, clock, variant, assets, settings,
                           before>>

\* finally: tmp_path.exists() is false (the rename took it)
finally_gone ==
    /\ pc = "cleanup"
    /\ ~fs[wr.tmp].exists
    /\ UNCHANGED <<fs, faults>>
    /\ Return(FALSE)

\* (faulty variant: the finally block leaves the file)
FinallyUnlinkSkipped ==
    /\ pc = "cleanup"
    /\ fs[wr.tmp].exists
    /\ UNCHANGED <<fs, faults>>
    /\ Return(FALSE)
\* finally: tmp_path.unlink()
finally_unlink ==
    /\ pc = "cleanup"
    /\ fs[wr.tmp].exists
    /\ fs' = [fs EXCEPT ![wr.tmp] = NoFile]
    /\ UNCHANGED faults
    /\ Return(FALSE)

\* finally: tmp_path.unlink() raises and "except Exception: pass" drops it
finally_unlink_fails ==
    /\ pc = "cleanup"
    /\ fs[wr.tmp].exists
    /\ FreeTmp # {}
    /\ faults < MaxFaults
    /\ faults' = faults + 1
    /\ UNCHANGED fs
    /\ Return(TRUE)

\* the process is killed inside safe_write_json: what it had in memory is
\* lost, what the directory holds stays
Crash ==
    /\ pc \in WritePcs
    /\ pc' = "crashed"
    /\ data' = PyNone
    /\ vehicle' = 0
    /\ dirty' = FALSE
    /\ last_saved_at' = PyNone
    /\ before' = PyNone
    /\ outcome' = "killed"
    /\ settings' = PyNone
    /\ tree_maint' = <<>>
    /\ editor' = NoEditor
    /\ autosave_pending' = FALSE
    /\ UNCHANGED <<fs, clock, wr, variant, assets, faults>>

----------------------------------------------------------------------------
(* The files the programs may find on disk *)

Absent == Val("absent", "", 0, <<>>, <<>>)

RECURSIVE MkDict(_, _)
\* the dict of the keys whose value is not Absent
MkDict(k, c) ==
    IF k = <<>> THEN PyDict(<<>>, <<>>)
    ELSE LET rest == MkDict(Tail(k), Tail(c))
         IN IF Head(c) = Absent THEN rest
            ELSE PyDict(<<Head(k)>> \o rest.k, <<Head(c)>> \o rest.c)

SampleItem == PyDict(<<"name">>, <<PyStr("Coilovers")>>)
SampleTask == PyDict(<<"task">>, <<PyStr("Oil change")>>)

OtherId == PyStr("v2")

VehicleOf(id, mileage, items, maintenance) ==
    MkDict(<<"id", "name", "current_mileage", "items", "maintenance">>,
           <<id, PyStr("Car"), mileage, items, maintenance>>)

IdChoices == {Absent, SeedId, OtherId}

\* every combination of the three backfilled fields
AnyVehicle ==
    {VehicleOf(id, m, it, mt) :
        id \in IdChoices,
        m \in {Absent, PyNone, PyInt(5)},
        it \in {Absent, PyNone, PyList(<<>>), PyList(<<SampleItem>>)},
        mt \in {Absent, PyNone, PyList(<<SampleTask>>)}}

\* the vehicles that longer lists are made of
PoolVehicle ==
    {VehicleOf(id, Absent, Absent, Absent) : id \in IdChoices}
    \cup {VehicleOf(id, PyInt(5), PyList(<<SampleItem>>), PyList(<<>>)) :
             id \in IdChoices}

GoodVehicle == VehicleOf(OtherId, PyInt(5), PyList(<<SampleItem>>), PyList(<<>>))

\* what a file may hold under "vehicles"
VehiclesChoices ==
    {Absent, PyNone, PyInt(0), PyInt(5), PyStr(""), PyStr("abc"),
     PyDict(<<>>, <<>>), PyDict(<<"a">>, <<PyInt(1)>>),
     PyList(<<>>), PyList(<<PyInt(1)>>),
     PyList(<<GoodVehicle, PyNone>>), PyList(<<PyStr("x"), GoodVehicle>>)}
    \cup {PyList(<<v>>) : v \in AnyVehicle}
    \cup {PyList(c) : c \in UNION {[1..n -> PoolVehicle] : n \in 2..MaxVehicles}}

SchemaChoices ==
    {Absent, PyNone, PyInt(0), PyInt(1), PyInt(2), PyBool(TRUE), PyFloat(1),
     PyStr("1")}

DocumentOf(schema, id, vehicles, stamp) ==
    MkDict(<<"schema", "active_vehicle_id", "vehicles", "updated_at">>,
           <<schema, id, vehicles, stamp>>)

\* the parsed values of the files of the model
FileValues ==
    {DocumentOf(PyInt(1), id, vs, st) :
        id \in {Absent, PyNone, SeedId, OtherId},
        vs \in VehiclesChoices,
        st \in {Absent, TimeStr(0)}}
    \cup {DocumentOf(sc, SeedId, vs, TimeStr(0)) :
             sc \in SchemaChoices,
             vs \in {Absent, PyList(<<GoodVehicle>>)}}
    \cup {PyList(c) :
             c \in UNION {[1..n -> {SampleItem, PyInt(1)}] : n \in 0..MaxLegacy}}
    \cup {PyNone, PyInt(1), PyStr("x"), PyBool(TRUE)}
    \cup {Put(DocumentOf(PyInt(1), OtherId,
                         PyList(<<VehicleOf(OtherId, PyInt(5), Absent,
                                            Absent)>>),
                         TimeStr(0)),
              "owner", PyStr("me"))}

\* texts json.loads rejects: empty, cut short, or with trailing text
BrokenTexts ==
    LET t == Dump(DocumentOf(PyInt(1), SeedId, PyList(<<GoodVehicle>>), TimeStr(0)))
    IN {SubSeq(t, 1, n) : n \in 0..(Len(t) - 1)}
       \cup {t \o <<Tok("}")>>, <<Tok("}")>>, <<Tok("["), Tok(",")>>}

LoadFiles ==
    {NoFile} \cup {FileOf(Dump(v)) : v \in FileValues}
             \cup {FileOf(t) : t \in BrokenTexts}

\* the files the session model starts from
TwoVehicles ==
    DocumentOf(PyInt(1), PyStr("gone"),
               PyList(<<VehicleOf(SeedId, Absent, Absent, Absent), GoodVehicle>>),
               TimeStr(0))
StartFiles == {NoFile, FileOf(Dump(TwoVehicles))}

TaskOf(last_miles, interval) ==
    MkDict(<<"task", "last_miles", "interval_miles">>,
           <<PyStr("Oil change"), last_miles, interval>>)

\* a vehicle at 150,000 miles whose oil change is due now
ServicedVehicle ==
    VehicleOf(SeedId, PyInt(150000), PyList(<<>>),
              PyList(<<TaskOf(PyStr("147,000"), PyStr("3000"))>>))

\* the files the maintenance sessions start from
MaintFiles ==
    {NoFile,
     FileOf(Dump(DocumentOf(PyInt(1), SeedId, PyList(<<ServicedVehicle>>),
                            TimeStr(0))))}

\* what a file may hold as a task's last_miles, as its interval_miles and as
\* the vehicle's current_mileage
LastMilesChoices ==
    {Absent, PyNone, PyStr(""), PyStr(" "), PyStr("abc"), PyStr("147,000"),
     PyStr("150000"), PyInt(147000), PyBool(TRUE)}
IntervalChoices ==
    {Absent, PyNone, PyStr(""), PyStr("x"), PyStr("0"), PyStr("3000"),
     PyInt(3000)}
MileageChoices ==
    {Absent, PyNone, PyInt(0), PyInt(147000), PyInt(150000), PyInt(153000),
     PyInt(160000), PyBool(TRUE), PyStr("150000"), PyFloat(150000)}

\* the files the due computation is run on: every combination on one task,
\* and lists of two tasks
DueFiles ==
    {FileOf(Dump(DocumentOf(PyInt(1), SeedId,
                            PyList(<<VehicleOf(SeedId, cur, Absent, PyList(ts))>>),
                            TimeStr(0)))) :
        cur \in MileageChoices,
        ts \in {<<TaskOf(l, i)>> : l \in LastMilesChoices, i \in IntervalChoices}
               \cup {<<TaskOf(PyStr("abc"), PyStr("3000")),
                        TaskOf(PyStr("150000"), i)>> : i \in IntervalChoices}}

\* what a settings file may hold under its keys
SettingsValues ==
    {MkDict(<<"schema", "theme", "ui_scale", "font_size", "autosave_ms",
              "car_mode", "window", "updated_at">>,
            <<PyInt(1), th, sc, fs_, au, cm, ex, TimeStr(0)>>) :
        th \in {Absent, PyNone, PyStr("dark"), PyStr("light"), PyStr("blue"),
                PyInt(1), PyList(<<PyStr("dark")>>)},
        sc \in {Absent, PyNone, PyStr("oops"), PyStr("1.5"), PyStr("2"),
                PyInt(2), PyInt(0), PyInt(-1), PyFrac(1, "5"), PyFrac(-1, "5"),
                PyBool(TRUE)},
        fs_ \in {Absent, PyInt(20)},
        au \in {Absent, PyNone, PyStr("x"), PyStr("3000"), PyStr("1.5"),
                PyInt(5), PyFrac(2, "5"), PyFrac(-1, "5"), PyBool(TRUE)},
        cm \in {Absent, PyNone, PyBool(TRUE), PyBool(FALSE), PyStr("false"),
                PyInt(0), PyList(<<>>)},
        ex \in {Absent, PyStr("800x600")}}
    \cup {MkDict(<<"schema", "theme", "ui_scale", "autosave_ms", "car_mode">>,
                 <<sc, PyStr("light"), PyInt(2), PyInt(5), PyBool(TRUE)>>) :
             sc \in SchemaChoices}
    \cup {PyNone, PyInt(1), PyStr("x"), PyList(<<>>),
          PyList(<<PyDict(<<"schema">>, <<PyInt(1)>>)>>)}

SettingsFiles ==
    {NoFile} \cup {FileOf(Dump(v)) : v \in SettingsValues}
             \cup {FileOf(t) : t \in BrokenTexts}

\* an item add_item made in an earlier session, with one photo attached
StoredAttachment ==
    PyDict(<<"kind", "path", "label", "added_at">>,
           <<PyStr("Photo"), PyStr("/a/strut.jpg"), PyStr("strut.jpg"),
             TimeStr(0)>>)
StoredItem ==
    PyDict(<<"date", "name", "mileage", "cost", "attachments", "created_at",
             "updated_at">>,
           <<PyStr("2024-05-01"), PyStr("Coilovers"), PyStr("150000"),
             PyStr(""), PyList(<<StoredAttachment>>), TimeStr(0),
             TimeStr(0)>>)

\* the files the editor sessions start from
EditorFiles ==
    {FileOf(Dump(DocumentOf(PyInt(1), SeedId,
                            PyList(<<VehicleOf(SeedId, PyNone,
                                               PyList(<<StoredItem,
                                                        SampleItem>>),
                                               PyList(<<>>))>>),
                            TimeStr(0))))}

\* what the assets folder may hold at the start: copies made in second 0
AssetsChoices ==
    {{}, {Candidate("/a/strut.jpg", 0, 0)},
     {Candidate("/a/strut.jpg", 0, 0), Candidate("/a/strut.jpg", 0, 1)}}

\* what the user may do at the file dialog, and what the copies may do: a
\* copy can fail only where one is made, and can leave a part only where
\* one failed
Selections ==
    LET all == {[paths |-> ps, kind |-> "Photo", copy |-> c, fails |-> f,
                 left |-> l] :
                   ps \in {<<>>, <<"/a/strut.jpg">>,
                           <<"/a/strut.jpg", "/b/strut.jpg">>,
                           <<"/a/bill.pdf", "/a/strut.jpg">>},
                   c \in BOOLEAN, f \in SUBSET {1, 2}, l \in BOOLEAN}
    IN {sel \in all : /\ sel.fails \subseteq 1..Len(sel.paths)
                      /\ sel.copy \/ sel.fails = {}
                      /\ sel.left => sel.fails # {}}

\* three items and three tasks to delete from
NamedItem(name) == PyDict(<<"name">>, <<PyStr(name)>>)
NamedTask(task) ==
    MkDict(<<"task", "last_miles", "interval_miles">>,
           <<PyStr(task), PyStr("147,000"), PyStr("3000")>>)
DeleteFiles ==
    {FileOf(Dump(DocumentOf(
         PyInt(1), SeedId,
         PyList(<<VehicleOf(SeedId, PyInt(150000),
                            PyList(<<NamedItem("Coilovers"),
                                     NamedItem("Exhaust"),
                                     NamedItem("Intake")>>),
                            PyList(<<NamedTask("Oil change"),
                                     NamedTask("Brakes"),
                                     NamedTask("Coolant")>>))>>),
         TimeStr(0))))}

\* the row ids a table of the deletion sessions can hold
RowIds == {0, 1, 2}

----------------------------------------------------------------------------
(* Specifications *)

InitMemory ==
    /\ data = PyNone
    /\ vehicle = 0
    /\ dirty = FALSE
    /\ last_saved_at = PyNone
    /\ pc = "boot"
    /\ wr = NoWrite
    /\ outcome = "none"
    /\ faults = 0
    /\ before = PyNone
    /\ settings = PyNone
    /\ tree_maint = <<>>
    /\ editor = NoEditor
    /\ autosave_pending = FALSE

\* a session of the modular program
Init ==
    /\ InitMemory
    /\ assets = {}
    /\ clock = 0
    /\ variant = "modular"
    /\ \E f \in StartFiles :
          fs = [n \in FileNames |-> IF n = DATA_FILE THEN f ELSE NoFile]

Next ==
    \/ Start
    \/ \E name \in {"", "Coilovers"}, mileage \in {"abc", "150,000"},
          cost \in {"", "free"} : add_item(name, mileage, cost)
    \/ \E s \in {"", "abc", "150,000"} : set_current_mileage(s)
    \/ save_now
    \/ autosave_tick
    \/ on_close
    \/ mkstemp_ok
    \/ mkstemp_fail
    \/ dump_chunk
    \/ dump_fail
    \/ replace_ok
    \/ replace_fail
    \/ finally_gone
    \/ finally_unlink
    \/ finally_unlink_fails
    \/ Crash

Spec == Init /\ [][Next]_vars

\* the start of either program on any file
InitLoad ==
    /\ InitMemory
    /\ assets = {}
    /\ clock \in {0, MaxClock}
    /\ variant \in {"modular", "mono"}
    /\ \E f \in LoadFiles :
          fs = [n \in FileNames |-> IF n = DATA_FILE THEN f ELSE NoFile]

NextLoad == Start /\ pc = "boot"

SpecLoad == InitLoad /\ [][NextLoad]_vars

\* the start of the modular program on any settings file
InitSettings ==
    /\ InitMemory
    /\ assets = {}
    /\ clock \in {0, MaxClock}
    /\ variant = "modular"
    /\ \E f \in SettingsFiles :
          fs = [n \in FileNames |-> IF n = SETTINGS_FILE THEN f ELSE NoFile]

SpecSettings == InitSettings /\ [][NextLoad]_vars

\* the start of either program on the files of the due computation
InitDue ==
    /\ InitMemory
    /\ assets = {}
    /\ clock = 0
    /\ variant \in {"modular", "mono"}
    /\ \E f \in DueFiles :
          fs = [n \in FileNames |-> IF n = DATA_FILE THEN f ELSE NoFile]

SpecDue == InitDue /\ [][NextLoad]_vars

\* a session of the modular program at the maintenance tab and the forms
InitMaint ==
    /\ InitMemory
    /\ assets = {}
    /\ clock = 0
    /\ variant = "modular"
    /\ \E f \in MaintFiles :
          fs = [n \in FileNames |-> IF n = DATA_FILE THEN f ELSE NoFile]

NextMaint ==
    \/ Start
    \/ \E name \in {"", "Coilovers"}, mileage \in {"abc", "150,000"},
          cost \in {"free", "$1,199.99"} : add_item(name, mileage, cost)
    \/ \E s \in {"", "abc", "153000"} : set_current_mileage(s)
    \/ \E task \in {"", "Oil change"}, last_miles \in {"abc", "147,000"},
          interval \in {"3000", "x"} :
          add_maintenance(task, last_miles, interval)
    \/ \E sel \in 0..Len(tree_maint) : mark_maintenance_done(sel)
    \/ mkstemp_ok
    \/ mkstemp_fail
    \/ dump_chunk
    \/ replace_ok
    \/ finally_gone

SpecMaint == InitMaint /\ [][NextMaint]_vars

\* a session of either program with the item editor
InitEditor ==
    /\ InitMemory
    /\ clock = 0
    /\ variant \in {"modular", "mono"}
    /\ assets \in AssetsChoices
    /\ \E f \in EditorFiles :
          fs = [n \in FileNames |-> IF n = DATA_FILE THEN f ELSE NoFile]

NextEditor ==
    \/ Start
    \/ \E sel \in 0..2 : edit_selected_mod(sel)
    \/ \E sel \in Selections : editor_add_files(sel)
    \/ \E sel \in 0..Len(EditorAttachments.c), yes \in BOOLEAN :
          editor_remove_selected(sel, yes)
    \/ \E name \in {"", "Struts"} : editor_save(name, "150,000", "")
    \/ editor_cancel
    \/ autosave_tick
    \/ mkstemp_ok
    \/ mkstemp_fail
    \/ dump_chunk
    \/ replace_ok
    \/ finally_gone

SpecEditor == InitEditor /\ [][NextEditor]_vars

\* a session of the modular program in which rows are deleted
InitDelete ==
    /\ InitMemory
    /\ assets = {}
    /\ clock = 0
    /\ variant = "modular"
    /\ \E f \in DeleteFiles :
          fs = [n \in FileNames |-> IF n = DATA_FILE THEN f ELSE NoFile]

NextDelete ==
    \/ Start
    \/ \E selected \in SUBSET RowIds, yes \in BOOLEAN :
          delete_selected_mod(selected, yes)
    \/ \E selected \in SUBSET {r - 1 : r \in 1..Len(tree_maint)},
          yes \in BOOLEAN :
          delete_maintenance(selected, yes)
    \/ mkstemp_ok
    \/ mkstemp_fail
    \/ dump_chunk
    \/ replace_ok
    \/ finally_gone

SpecDelete == InitDelete /\ [][NextDelete]_vars

----------------------------------------------------------------------------
(* Properties *)

Min(S) == CHOOSE x \in S : \A y \in S : x <= y

RECURSIVE Without(_, _)
\* the dict d without the key
Without(d, key) ==
    IF d.k = <<>> THEN d
    ELSE LET rest == Without(PyDict(Tail(d.k), Tail(d.c)), key)
         IN IF Head(d.k) = key THEN rest
            ELSE PyDict(<<Head(d.k)>> \o rest.k, <<Head(d.c)>> \o rest.c)

\* the document of the one seeded vehicle holding the given items
SeededDocument(items, stamp) ==
    PyDict(<<"schema", "active_vehicle_id", "vehicles", "updated_at">>,
           <<PyInt(1), PyStr("maxine-06-maxima"),
             PyList(<<PyDict(<<"id", "name", "year", "make", "model",
                               "current_mileage", "items", "maintenance">>,
                             <<PyStr("maxine-06-maxima"), PyStr("Maxine"),
                               PyInt(2006), PyStr("Nissan"), PyStr("Maxima"),
                               PyNone, items, PyList(<<>>)>>)>>),
             stamp>>)

OnDisk == fs[DATA_FILE]
Parsed == Loads(OnDisk.text)

\* C1: while safe_write_json runs, and after a kill at any of its steps, the
\* path holds the complete previous content or the complete new content, and
\* only the rename of the fully written temp file changes what it holds.
AtomicReplace ==
    /\ [](pc \in WritePcs => OnDisk = wr.old \/ OnDisk = FileOf(Dump(data)))
    /\ [](pc = "crashed" => OnDisk = wr.old \/ OnDisk = FileOf(wr.text))
    /\ [][OnDisk' # OnDisk =>
            /\ pc = "replace"
            /\ fs[wr.tmp] = FileOf(Dump(data))
            /\ OnDisk' = FileOf(Dump(data))]_vars

\* a kill in the middle of the dump: a partly written temp file lies beside
\* the untouched previous file
KilledMidWrite ==
    /\ pc = "crashed"
    /\ wr.tmp # ""
    /\ fs[wr.tmp].exists
    /\ Len(fs[wr.tmp].text) > 0
    /\ Len(fs[wr.tmp].text) < Len(wr.text)
    /\ wr.old.exists
    /\ OnDisk = wr.old

CallEnded == outcome \in {"saved", "write_error"} /\ wr.tmp # ""

FailedSaveLeavesDocument == outcome = "write_error" => data = before

\* C3, amended: after a failed write the error has reached the caller and the
\* document is what it was when save_data was called, except for updated_at,
\* which save_data stamped before writing.
FailedSaveLeavesAllButStamp ==
    outcome = "write_error" =>
        /\ pc = "idle"
        /\ wr.err
        /\ Without(data, "updated_at") = Without(before, "updated_at")

\* a failed write that left a new stamp in the document
FailedSaveStamped ==
    /\ outcome = "write_error"
    /\ data # before
    /\ Len(ItemsOf(data, vehicle).c) > 0

\* the file is missing, does not parse, parses to something that is neither a
\* list nor a dict, or is a dict whose "schema" is missing or not equal to 1
\* (equal as Python compares: 1, 1.0 and true are equal to 1)
FallbackFile ==
    \/ ~OnDisk.exists
    \/ ~Parsed.ok
    \/ Parsed.val.t \notin {"list", "dict"}
    \/ /\ Parsed.val.t = "dict"
       /\ \/ ~Has(Parsed.val, "schema")
          \/ Item(Parsed.val, "schema").t \notin NumericTypes
          \/ Item(Parsed.val, "schema").n # 1

\* C4: on a missing, unparsable, wrongly shaped or unrecognised file the
\* loader returns the default document and the program starts.
LoadFallsBackToDefault ==
    (pc # "boot" /\ FallbackFile) =>
        /\ pc = "idle"
        /\ data = SeededDocument(PyList(<<>>), now_iso)

\* a dict with another schema tag and a vehicle of its own was discarded
ForeignSchemaDiscarded ==
    /\ pc = "idle"
    /\ Parsed.ok
    /\ Parsed.val.t = "dict"
    /\ Get(Parsed.val, "schema") = PyInt(2)
    /\ Get(Parsed.val, "vehicles") = PyList(<<GoodVehicle>>)
    /\ data = SeededDocument(PyList(<<>>), now_iso)

LegacyFile == OnDisk.exists /\ Parsed.ok /\ Parsed.val.t = "list"

\* C5: a file holding a bare list L loads as the seeded document with
\* items = L and everything else at its default.
LegacyListBecomesItems ==
    (pc # "boot" /\ LegacyFile) =>
        /\ pc = "idle"
        /\ data = SeededDocument(Parsed.val, now_iso)

\* the modular loader migrated a list of two entries
LegacyListMigrated ==
    /\ pc = "idle"
    /\ variant = "modular"
    /\ LegacyFile
    /\ Len(Parsed.val.c) = 2
    /\ ItemsOf(data, 1) = Parsed.val
    /\ Len(Vehicles(data)) = 1

\* C6: whatever the file held, the loaded document has a list of at least
\* one vehicle.
LoadedHasVehicle ==
    pc # "boot" =>
        /\ Has(data, "vehicles")
        /\ Item(data, "vehicles").t = "list"
        /\ Len(Item(data, "vehicles").c) >= 1

\* a schema-1 file with an empty vehicles list got the seed vehicle
EmptyVehiclesSeeded ==
    /\ pc = "idle"
    /\ variant = "modular"
    /\ ~FallbackFile
    /\ ~LegacyFile
    /\ Has(Parsed.val, "vehicles")
    /\ Item(Parsed.val, "vehicles") = PyList(<<>>)
    /\ Len(Vehicles(data)) = 1

\* C7: every vehicle of the loaded document has an items list, a maintenance
\* list and a current_mileage field.
LoadedVehiclesHaveLists ==
    pc = "idle" =>
        \A i \in 1..Len(Vehicles(data)) :
            /\ Get(Vehicles(data)[i], "items").t = "list"
            /\ Get(Vehicles(data)[i], "maintenance").t = "list"
            /\ Has(Vehicles(data)[i], "current_mileage")

\* the vehicles whose id equals the document's active_vehicle_id
MatchingVehicles ==
    {i \in 1..Len(Vehicles(data)) :
        PyEq(Get(Vehicles(data)[i], "id"), Get(data, "active_vehicle_id"))}

\* the file is a schema-1 dict that names an active vehicle and whose vehicles
\* entry the loader can walk
NamesActiveVehicle ==
    /\ ~FallbackFile
    /\ ~LegacyFile
    /\ Has(Parsed.val, "active_vehicle_id")
    /\ Has(Parsed.val, "vehicles")
    /\ Item(Parsed.val, "vehicles").t = "list"
    /\ \A i \in 1..Len(Item(Parsed.val, "vehicles").c) :
          Item(Parsed.val, "vehicles").c[i].t = "dict"

\* C8: on a loaded document the active-vehicle query does not fail and
\* returns the first vehicle whose id equals active_vehicle_id, or the first
\* vehicle when there is none; an active_vehicle_id the file names is kept
\* as it is, matching or not.
ActiveVehicleResolves ==
    pc # "boot" =>
        /\ vehicle \in 1..Len(Vehicles(data))
        /\ vehicle = IF MatchingVehicles # {} THEN Min(MatchingVehicles) ELSE 1
        /\ NamesActiveVehicle =>
              Get(data, "active_vehicle_id") = Item(Parsed.val, "active_vehicle_id")

\* the second of two vehicles is the active one
SecondVehicleActive ==
    /\ pc = "idle"
    /\ NamesActiveVehicle
    /\ Len(Vehicles(data)) = 2
    /\ vehicle = 2
    /\ MatchingVehicles = {2}

\* the document is schema 1 with at least one vehicle, each vehicle a dict
\* carrying items, maintenance and current_mileage
WellFormed(d) ==
    /\ d.t = "dict"
    /\ Get(d, "schema") = PyInt(1)
    /\ Has(d, "active_vehicle_id")
    /\ Has(d, "updated_at")
    /\ Get(d, "vehicles").t = "list"
    /\ Len(Get(d, "vehicles").c) >= 1
    /\ \A i \in 1..Len(Get(d, "vehicles").c) :
          LET v == Get(d, "vehicles").c[i]
          IN v.t = "dict" /\ Has(v, "items") /\ Has(v, "maintenance")
             /\ Has(v, "current_mileage")

\* C9: a well-formed document that save_data has written (the forced save of
\* _on_close) is the document load_data returns at the next start, in every
\* field other than updated_at.
SaveThenLoadRoundTrip ==
    [][(pc = "closed" /\ pc' # "closed" /\ WellFormed(data)) =>
          /\ pc' = "idle"
          /\ Without(data', "updated_at") = Without(data, "updated_at")]_vars

\* a document with an item and a mileage came back from the file
ReloadedWithItem ==
    /\ pc = "idle"
    /\ outcome = "started"
    /\ clock > 0
    /\ WellFormed(data)
    /\ OnDisk = FileOf(Dump(data))
    /\ Len(ItemsOf(data, vehicle).c) > 0

\* C10: every successful save stores an updated_at strictly greater than the
\* one the document had before that save.
SaveStampStrictlyIncreases ==
    outcome = "saved" =>
        Get(data, "updated_at").n > Get(before, "updated_at").n

\* C11: after every successful save the data file parses to the document in
\* memory, updated_at included, and that document is the one save_data was
\* given with updated_at set to the time of the call (the handler was
\* dispatched one tick ago).
SavedFileIsDocument ==
    outcome = "saved" =>
        /\ OnDisk.exists
        /\ Parsed.ok
        /\ Parsed.val = data
        /\ Get(Parsed.val, "updated_at") =
              TimeStr((clock - 1) \div TicksPerSecond)
        /\ Without(data, "updated_at") = Without(before, "updated_at")

\* a save that moved the stamp of a document holding an item
SavedWithFreshStamp ==
    /\ outcome = "saved"
    /\ Get(data, "updated_at") # Get(before, "updated_at")
    /\ Get(Parsed.val, "updated_at") = Get(data, "updated_at")
    /\ Len(ItemsOf(data, vehicle).c) > 0

SettingsOnDisk == fs[SETTINGS_FILE]
SettingsParsed == Loads(SettingsOnDisk.text)

\* the settings file holds a dict whose schema tag equals 1
SettingsMerged ==
    /\ SettingsOnDisk.exists
    /\ SettingsParsed.ok
    /\ SettingsParsed.val.t = "dict"
    /\ Has(SettingsParsed.val, "schema")
    /\ Item(SettingsParsed.val, "schema").t \in NumericTypes
    /\ Item(SettingsParsed.val, "schema").n = 1
    /\ Item(SettingsParsed.val, "schema").s = ""

\* the file's value under key is the one load_settings looks at
Stored(key) == SettingsMerged /\ Has(SettingsParsed.val, key)
StoredValue(key) == Item(SettingsParsed.val, key)

RecognisedKeys ==
    {"schema", "theme", "ui_scale", "font_family", "font_size", "autosave_ms",
     "car_mode", "updated_at"}

\* the settings document of the defaults (models.py, default_settings)
DefaultSettingsDocument(stamp) ==
    PyDict(<<"schema", "theme", "ui_scale", "font_family", "font_size",
             "autosave_ms", "car_mode", "updated_at">>,
           <<PyInt(1), PyStr("dark"), PyFrac(1, "45"), PyStr("Segoe UI"),
             PyInt(13), PyInt(20000), PyBool(FALSE), stamp>>)

\* C12: the mapping load_settings returns has exactly the eight recognised
\* keys, whatever keys the file has, and every recognised key the file does
\* not have is at its default.
KnownSettingsOnly ==
    pc # "boot" =>
        /\ Len(settings.k) = Cardinality(RecognisedKeys)
        /\ {settings.k[i] : i \in 1..Len(settings.k)} = RecognisedKeys
        /\ \A key \in RecognisedKeys :
              ~Stored(key) =>
                  Item(settings, key) =
                      Item(DefaultSettingsDocument(now_iso), key)

\* a file with a key of its own and no theme: the key is gone, the theme is
\* the default, the font size is the file's
UnknownKeyDropped ==
    /\ pc = "idle"
    /\ Stored("window")
    /\ ~Stored("theme")
    /\ Stored("font_size")
    /\ ~Has(settings, "window")
    /\ Item(settings, "theme") = PyStr("dark")
    /\ Item(settings, "font_size") = StoredValue("font_size")

\* C13: the theme load_settings returns is "dark" or "light": the stored one
\* when it is one of the two, the default "dark" for every other stored value
\* and when nothing is stored.
ThemeDarkOrLight ==
    pc # "boot" =>
        /\ Item(settings, "theme") \in {PyStr("dark"), PyStr("light")}
        /\ IF Stored("theme")
              /\ StoredValue("theme") \in {PyStr("dark"), PyStr("light")}
           THEN Item(settings, "theme") = StoredValue("theme")
           ELSE Item(settings, "theme") = PyStr("dark")

\* a stored "light" was kept, where the default is "dark"
StoredThemeKept ==
    /\ pc = "idle"
    /\ Stored("theme")
    /\ StoredValue("theme") = PyStr("light")
    /\ Item(settings, "theme") = PyStr("light")

\* v is a number above zero, or a text float() reads as one
PositiveNumber(v) ==
    \/ v.t \in NumericTypes /\ (v.n > 0 \/ (v.n = 0 /\ v.s # ""))
    \/ v.t = "str" /\ v.s \in {"1.5", "2"}

\* C14: the ui_scale load_settings returns is a float above zero: the stored
\* value as a float when it reads as a positive number, the default 1.45 for
\* every other stored value (unreadable, zero, negative).
ScalePositiveFloat ==
    pc # "boot" =>
        /\ Item(settings, "ui_scale").t = "float"
        /\ PositiveNumber(Item(settings, "ui_scale"))
        /\ (Stored("ui_scale") /\ ~PositiveNumber(StoredValue("ui_scale"))) =>
              Item(settings, "ui_scale") = PyFrac(1, "45")

\* v is a whole number, or a text that reads as one
WholeNumber(v) ==
    \/ v.t \in NumericTypes /\ v.s = ""
    \/ v.t = "str" /\ v.s \in {"3000"}

\* the whole number v stands for
WholeValue(v) == IF v.t = "str" THEN 3000 ELSE v.n

\* car_mode is the boolean of the stored value's truthiness, false when
\* nothing is stored
CarModeIsTruthiness ==
    /\ Item(settings, "car_mode").t = "bool"
    /\ Item(settings, "car_mode").n = 1 <=>
          /\ Stored("car_mode")
          /\ StoredValue("car_mode") \notin
                {PyNone, PyBool(FALSE), PyInt(0), PyStr(""), PyList(<<>>),
                 PyDict(<<>>, <<>>)}

\* C15 as stated: autosave_ms is an int, the stored value when that is a
\* whole number and 20000 otherwise; car_mode is the stored value's
\* truthiness.
AutosaveStoredOrDefault ==
    pc # "boot" =>
        /\ Item(settings, "autosave_ms").t = "int"
        /\ IF Stored("autosave_ms") /\ WholeNumber(StoredValue("autosave_ms"))
           THEN Item(settings, "autosave_ms").n =
                    WholeValue(StoredValue("autosave_ms"))
           ELSE Item(settings, "autosave_ms").n = 20000
        /\ CarModeIsTruthiness

\* C15, amended: autosave_ms is an int: what int() makes of the stored value
\* (a whole number itself, a number with a fractional part cut towards zero,
\* a text that reads as a whole number that number) and 20000 where int()
\* rejects it or nothing is stored; car_mode is the stored value's truthiness.
AutosaveConvertedOrDefault ==
    pc # "boot" =>
        /\ Item(settings, "autosave_ms").t = "int"
        /\ Item(settings, "autosave_ms").n =
              IF ~Stored("autosave_ms") THEN 20000
              ELSE LET v == StoredValue("autosave_ms")
                   IN IF WholeNumber(v) THEN WholeValue(v)
                      ELSE IF v.t = "float"
                      THEN (IF v.n < 0 THEN v.n + 1 ELSE v.n)
                      ELSE 20000
        /\ CarModeIsTruthiness

\* a stored 2.5 came back as 2, and a stored "false" as car mode on
FractionCut ==
    /\ pc = "idle"
    /\ Stored("autosave_ms")
    /\ StoredValue("autosave_ms") = PyFrac(2, "5")
    /\ Item(settings, "autosave_ms") = PyInt(2)
    /\ Stored("car_mode")
    /\ StoredValue("car_mode") = PyStr("false")
    /\ Item(settings, "car_mode") = PyBool(TRUE)

\* C16: when the settings file is missing, does not parse, is no dict or is a
\* dict whose schema tag is not 1, load_settings returns the default settings
\* and the start goes on.
SettingsFallBackToDefault ==
    (pc # "boot" /\ ~SettingsMerged) =>
        /\ pc = "idle"
        /\ settings = DefaultSettingsDocument(now_iso)

\* a dict of schema 2 with settings of its own was discarded
ForeignSettingsDiscarded ==
    /\ pc = "idle"
    /\ SettingsOnDisk.exists
    /\ SettingsParsed.ok
    /\ SettingsParsed.val.t = "dict"
    /\ Get(SettingsParsed.val, "schema") = PyInt(2)
    /\ Get(SettingsParsed.val, "theme") = PyStr("light")
    /\ settings = DefaultSettingsDocument(now_iso)

\* the tasks of the active vehicle and its current mileage
Tasks == MaintenanceOf(data, vehicle).c
CurrentMileage == Get(Vehicles(data)[vehicle], "current_mileage")

\* the stored mileage v (a task's last_miles or interval_miles) is there and
\* reads as an integer; thousands separators are allowed
ReadsAsInteger(v) ==
    \/ v.t = "int"
    \/ v.t = "str" /\ v.s \in {"0", "3000", "147,000", "150000"}

IntegerRead(v) ==
    IF v.t = "int" THEN v.n
    ELSE CASE v.s = "0" -> 0
           [] v.s = "3000" -> 3000
           [] v.s = "147,000" -> 147000
           [] v.s = "150000" -> 150000

DueDefined(m) ==
    /\ Has(m, "last_miles")
    /\ Has(m, "interval_miles")
    /\ ReadsAsInteger(Item(m, "last_miles"))
    /\ ReadsAsInteger(Item(m, "interval_miles"))

DueOf(m) == IntegerRead(Item(m, "last_miles")) + IntegerRead(Item(m, "interval_miles"))

\* C17: for a task whose last-serviced mileage L and interval I read as
\* integers and an integer current mileage C, the row shows L + I as due and,
\* with R = L + I - C, R itself when R >= 0 and OVERDUE abs(R) when R < 0.
DueAndRemaining ==
    pc = "idle" =>
        /\ Len(tree_maint) = Len(Tasks)
        /\ \A i \in 1..Len(Tasks) :
              (DueDefined(Tasks[i]) /\ CurrentMileage.t = "int") =>
                  LET R == DueOf(Tasks[i]) - CurrentMileage.n
                  IN /\ tree_maint[i].due =
                           [t |-> "str", s |-> "{:,}", n |-> DueOf(Tasks[i]),
                            k |-> <<>>, c |-> <<>>]
                     /\ R >= 0 =>
                           tree_maint[i].remaining =
                               [t |-> "str", s |-> "{:,}", n |-> R,
                                k |-> <<>>, c |-> <<>>]
                     /\ R < 0 =>
                           tree_maint[i].remaining =
                               [t |-> "str", s |-> "OVERDUE {:,}", n |-> 0 - R,
                                k |-> <<>>, c |-> <<>>]

\* at 160,000 miles a task last done at 150,000 with an interval of 3,000 is
\* shown as due at 153,000 and overdue by 7,000
OverdueShown ==
    /\ pc = "idle"
    /\ CurrentMileage = PyInt(160000)
    /\ \E i \in 1..Len(tree_maint) :
          /\ DueDefined(Tasks[i])
          /\ tree_maint[i].due.n = 153000
          /\ tree_maint[i].remaining.s = "OVERDUE {:,}"
          /\ tree_maint[i].remaining.n = 7000

NothingCommitted ==
    /\ data' = data
    /\ dirty' = dirty
    /\ fs' = fs
    /\ pc' = "idle"

\* str() of the mileages a session can reach
MileageText(v) ==
    CASE v.n = 150000 -> "150000"
      [] v.n = 153000 -> "153000"

\* C19: mark_maintenance_done on a selected row: with the current mileage
\* unknown it reports that and commits nothing; otherwise the selected task
\* gets today as last_date and the current mileage as last_miles, and every
\* other task is left as it was.
MarkDoneContract ==
    [][\A sel \in 1..Len(tree_maint) :
          mark_maintenance_done(sel) =>
              IF CurrentMileage = PyNone
              THEN NothingCommitted /\ outcome' = "no_mileage"
              ELSE LET after == MaintenanceOf(data', vehicle).c
                   IN /\ Len(after) = Len(Tasks)
                      /\ Get(after[sel], "last_date") =
                            [t |-> "str", s |-> "@day", n |-> 0,
                             k |-> <<>>, c |-> <<>>]
                      /\ Get(after[sel], "last_miles") =
                            PyStr(MileageText(CurrentMileage))
                      /\ \A j \in 1..Len(Tasks) : j # sel => after[j] = Tasks[j]
                      /\ dirty'
                      /\ pc' = "mkstemp"]_vars

\* a task was marked done at 150,000 miles, the mileage was then cleared, and
\* a second attempt was turned down
MarkDoneTurnedDown ==
    /\ outcome = "no_mileage"
    /\ CurrentMileage = PyNone
    /\ Len(Tasks) = 1
    /\ Get(Tasks[1], "last_miles") = PyStr("150000")
    /\ Has(Tasks[1], "last_date")

\* texts that int() and float() reject
NotAWholeNumber(s) == s \in {"abc", "x"}
NotANumber(s) == s \in {"free"}

\* C20: add_item, add_maintenance and set_current_mileage with invalid input
\* (no name or task, a mileage or interval that is no whole number, a cost
\* that is no number) report the error and commit nothing: document, dirty
\* flag and files stay as they were.
InvalidInputCommitsNothing ==
    [][/\ \A name \in {"", "Coilovers"}, mileage \in {"", "abc", "150,000"},
             cost \in {"", "free", "$1,199.99"} :
             (/\ name = "" \/ NotAWholeNumber(mileage) \/ NotANumber(cost)
              /\ add_item(name, mileage, cost))
                 => NothingCommitted /\ outcome' = "invalid"
       /\ \A task \in {"", "Oil change"}, last_miles \in {"", "abc", "147,000"},
             interval \in {"", "3000", "x"} :
             (/\ \/ task = ""
                 \/ NotAWholeNumber(last_miles)
                 \/ NotAWholeNumber(interval)
              /\ add_maintenance(task, last_miles, interval))
                 => NothingCommitted /\ outcome' = "invalid"
       /\ \A text \in {"abc", "x"} :
             set_current_mileage(text) => NothingCommitted /\ outcome' = "invalid"
      ]_vars

\* an invalid input was turned down while an earlier task, whose save had
\* failed, was still waiting to be written
InvalidTurnedDownWhileDirty ==
    /\ outcome = "invalid"
    /\ pc = "idle"
    /\ dirty
    /\ Len(Tasks) = 2
    /\ Len(tree_maint) = 1

----------------------------------------------------------------------------
(* The attachments of the item editor *)

\* the records a step has appended to the editor's list
NewAttachments ==
    SubSeq(EditorAttachments'.c, Len(EditorAttachments.c) + 1,
           Len(EditorAttachments'.c))

\* the path names a copy in the assets folder
IsCopy(path) == \E p \in SourcePaths : path.s = DestText(p)

\* the copies shutil.copy2 starts in _add_files with the selection sel
CopiesStarted(sel) ==
    IF sel.copy
    THEN {i \in 1..Len(sel.paths) : i \notin sel.fails \/ sel.left}
    ELSE {}

\* C21: unique_dest_path never returns a path that exists in the folder, and
\* in every add-attachment action, also for two sources of one name added in
\* the same second, the copy destinations are pairwise distinct, none of them
\* existed before (no file and no earlier copy is overwritten: every copy
\* adds one file to the folder), and no file of the folder goes away.
UniqueDestinations ==
    [][/\ \A p \in SourcePaths : unique_dest_path(assets, p) \notin assets
       /\ \A sel \in Selections :
             (outcome' \in {"files_added", "no_selection"}
              /\ editor_add_files(sel)) =>
                \A new \in {NewAttachments} :
                   \A copies \in {{i \in 1..Len(new) :
                                      IsCopy(Get(new[i], "path"))}} :
                      /\ \A i \in copies :
                            /\ Get(new[i], "path") \notin assets
                            /\ Get(new[i], "path") \in assets'
                      /\ \A i, j \in copies :
                            i # j =>
                               Get(new[i], "path") # Get(new[j], "path")
                      /\ assets \subseteq assets'
                      /\ Cardinality(assets') =
                            Cardinality(assets)
                            + Cardinality(CopiesStarted(sel))
      ]_vars

\* two sources named strut.jpg were added in second 0, in which the folder
\* held two copies of that name already: the new copies are numbers 2 and 3
CollisionResolved ==
    /\ outcome = "files_added"
    /\ editor.open
    /\ \E i, j \in 1..Len(EditorAttachments.c) :
          /\ Get(EditorAttachments.c[i], "path")
                = Candidate("/a/strut.jpg", 0, 2)
          /\ Get(EditorAttachments.c[j], "path")
                = Candidate("/b/strut.jpg", 0, 3)
    /\ Candidate("/a/strut.jpg", 0, 1) \in assets

RemovalOnlyDetaches ==
    [][\A sel \in 0..Len(EditorAttachments.c), yes \in BOOLEAN :
          editor_remove_selected(sel, yes) =>
             LET old == EditorAttachments.c
             IN /\ assets' = assets
                /\ fs' = fs
                /\ EditorAttachments'.c =
                      IF sel = 0 \/ ~yes THEN old
                      ELSE [i \in 1..(Len(old) - 1) |->
                               IF i < sel THEN old[i] ELSE old[i + 1]]
      ]_vars

\* a copy made in this session is still in the folder after its record was
\* removed
CopyOutlivesRecord ==
    /\ outcome = "removed"
    /\ faults = 0
    /\ Candidate("/a/strut.jpg", 0, 2) \in assets
    /\ \A i \in 1..Len(EditorAttachments.c) :
          Get(EditorAttachments.c[i], "path") # Candidate("/a/strut.jpg", 0, 2)

----------------------------------------------------------------------------
(* What the loader leaves as it was *)

CurrentSchemaFile ==
    OnDisk.exists /\ Parsed.ok /\ SchemaRecognised(Parsed.val)

\* every key of the stored dict is in the loaded one with the stored value
KeptKeys(stored, loaded) ==
    \A i \in 1..Len(stored.k) :
        Has(loaded, stored.k[i]) /\ Item(loaded, stored.k[i]) = stored.c[i]

\* the stored document has a list of at least one entry under "vehicles"
StoredVehicles ==
    /\ Has(Parsed.val, "vehicles")
    /\ Item(Parsed.val, "vehicles").t = "list"
    /\ Item(Parsed.val, "vehicles").c # <<>>

\* the loaded document has what the file stored: the top-level keys (the
\* key "vehicles" aside) and, when the file has a list of vehicles, the same
\* number of vehicles with every stored key of each
StoredKept ==
    /\ KeptKeys(Without(Parsed.val, "vehicles"), data)
    /\ StoredVehicles =>
          LET vs == Item(Parsed.val, "vehicles").c
          IN /\ Len(Vehicles(data)) = Len(vs)
             /\ \A i \in 1..Len(vs) :
                   vs[i].t = "dict" => KeptKeys(vs[i], Vehicles(data)[i])

\* C24 as claimed: loading a schema-1 mapping only adds what is missing:
\* every stored top-level key and every stored key of a vehicle comes back
\* with its stored value, and a stored active_vehicle_id, updated_at or
\* non-empty vehicles list is never overwritten.
LoadOnlyAddsMissing ==
    (pc # "boot" /\ CurrentSchemaFile) => StoredKept

\* the stored "vehicles", when there is one, is a list of dicts
VehiclesWellShaped ==
    Has(Parsed.val, "vehicles") =>
        /\ Item(Parsed.val, "vehicles").t = "list"
        /\ \A i \in 1..Len(Item(Parsed.val, "vehicles").c) :
              Item(Parsed.val, "vehicles").c[i].t = "dict"

\* C24, amended: loading a schema-1 mapping whose vehicles, when present, is
\* a list of mappings only adds what is missing (an empty list is replaced
\* by the seed vehicle); a vehicles list with an entry that is no mapping
\* makes the loader discard the file and return the default document.
LoadOnlyAddsMissingToWellShaped ==
    (pc # "boot" /\ CurrentSchemaFile) =>
        /\ VehiclesWellShaped => StoredKept
        /\ (StoredVehicles /\ ~VehiclesWellShaped) =>
              data = SeededDocument(PyList(<<>>), now_iso)

\* a file with a key the loader does not know and a vehicle without items:
\* the key, the vehicle's name and its mileage are kept, the items added
UnknownKeyKept ==
    /\ pc = "idle"
    /\ CurrentSchemaFile
    /\ Has(Parsed.val, "owner")
    /\ Get(data, "owner") = PyStr("me")
    /\ ~Has(Item(Parsed.val, "vehicles").c[1], "items")
    /\ ItemsOf(data, 1) = PyList(<<>>)
    /\ Get(Vehicles(data)[1], "name") = PyStr("Car")
    /\ Get(Vehicles(data)[1], "current_mileage") = PyInt(5)

\* the item the open editor was opened on, as the document holds it
EditedItem == ItemsOf(data, vehicle).c[editor.idx]

\* C25: when the editor is closed by Cancel or Escape, or turns a save down
\* at validation, the item of the document, its attachments included, is as
\* it was when the editor was opened, whatever was added or removed in the
\* editor.
CancelLeavesItem ==
    [][(\/ editor_cancel
        \/ \E name \in {"", "Struts"} :
              editor_save(name, "150,000", "") /\ outcome' = "invalid")
       => EditedItem = editor.item
      ]_vars

----------------------------------------------------------------------------
(* The dirty flag *)

\* the document the session last had in step with the disk: what it wrote
\* last, or, before its first write, what load_data returns for the file
InStepDocument ==
    IF last_saved_at # PyNone THEN Parsed.val
    ELSE IF variant = "modular" THEN load_data(OnDisk, now_iso)
    ELSE load_data_mono(OnDisk, now_iso)

\* a clear dirty flag between two handlers tells the truth
CleanMeansInStep ==
    (pc = "idle" /\ ~dirty) =>
        Without(data, "updated_at") = Without(InStepDocument, "updated_at")

\* C26: between user actions a clear dirty flag means that the document in
\* memory is, updated_at aside, what the session last wrote (or loaded, when
\* it has not written yet); a handler that changes the document leaves the
\* flag set when it goes on to its save, and only the end of a write that
\* succeeded clears the flag.
DirtyFlagSound ==
    /\ []CleanMeansInStep
    /\ [][/\ (pc = "idle" /\ pc' \in {"idle", "mkstemp"}
              /\ Without(data', "updated_at") # Without(data, "updated_at"))
             => dirty'
          /\ (dirty /\ ~dirty' /\ pc' \notin {"crashed", "boot"})
             => (pc = "cleanup" /\ ~wr.err /\ outcome' = "saved")
         ]_vars

----------------------------------------------------------------------------
(* The autosave timer and the close of the window *)

\* C27: while the application runs, a call of _autosave_tick is scheduled
\* whenever no handler is running: every tick schedules its successor, also
\* a tick whose save raised a write error.
TickAlwaysPending == pc = "idle" => autosave_pending

\* the window is gone only with the document on disk
ClosedMeansWritten ==
    pc = "closed" =>
        /\ outcome = "saved"
        /\ ~dirty
        /\ Parsed.ok
        /\ Parsed.val = data

\* C28: a close request starts a save whether the document is dirty or not;
\* the window is destroyed only at the end of that save, when it succeeded,
\* and then the file holds the document in memory; a save that raises
\* leaves the window open and the document in memory as it was.
CloseSavesFirst ==
    /\ []ClosedMeansWritten
    /\ [][/\ on_close => (pc' = "mkstemp" /\ wr'.caller = "close")
          /\ (pc # "closed" /\ pc' = "closed")
             => (pc = "cleanup" /\ wr.caller = "close" /\ ~wr.err)
          /\ (wr.caller = "close" /\ outcome' = "write_error")
             => (pc' = "idle" /\ data' = data /\ dirty' = dirty)
         ]_vars

\* the window was closed right after the start on an empty directory: the
\* document, which was not dirty, is on disk
CleanDocumentClosed ==
    /\ pc = "closed"
    /\ clock = 1
    /\ OnDisk.exists
    /\ data = SeededDocument(PyList(<<>>), TimeStr(0))

----------------------------------------------------------------------------
(* The items of the document *)

\* C29: an item that has a created_at keeps it, with the same value, through
\* every later operation on the item: editor saves, document saves and
\* reloads; an edit changes updated_at only.
CreatedAtKept ==
    [][(/\ pc # "boot"
        /\ pc' \notin {"boot", "crashed"}
        /\ ItemsOf(data, vehicle).t = "list"
        /\ Len(ItemsOf(data', vehicle').c) = Len(ItemsOf(data, vehicle).c))
       => \A i \in 1..Len(ItemsOf(data, vehicle).c) :
             Has(ItemsOf(data, vehicle).c[i], "created_at") =>
                /\ Has(ItemsOf(data', vehicle').c[i], "created_at")
                /\ Item(ItemsOf(data', vehicle').c[i], "created_at")
                      = Item(ItemsOf(data, vehicle).c[i], "created_at")
      ]_vars

RECURSIVE KeepFrom(_, _, _)
\* the entries of c from number j on whose index, counted from 0, is not
\* in S, in their order
KeepFrom(c, S, j) ==
    IF j > Len(c) THEN <<>>
    ELSE (IF (j - 1) \in S THEN <<>> ELSE <<c[j]>>) \o KeepFrom(c, S, j + 1)

\* C30: a confirmed deletion removes from the list exactly the entries at
\* the selected indices that are in range; the other entries stay, in their
\* order, indices out of range are ignored, and the other list of the
\* vehicle is not touched.
DeletionExact ==
    [][\A selected \in (SUBSET RowIds) \ {{}} :
          /\ delete_selected_mod(selected, TRUE) =>
                /\ ItemsOf(data', vehicle).c
                      = KeepFrom(ItemsOf(data, vehicle).c, selected, 1)
                /\ MaintenanceOf(data', vehicle) = MaintenanceOf(data, vehicle)
          /\ delete_maintenance(selected, TRUE) =>
                /\ MaintenanceOf(data', vehicle).c
                      = KeepFrom(MaintenanceOf(data, vehicle).c, selected, 1)
                /\ ItemsOf(data', vehicle) = ItemsOf(data, vehicle)
      ]_vars

\* the first and the last of three items were deleted in one go: the
\* middle one is what is left
OuterRowsDeleted ==
    /\ clock = 1
    /\ pc = "mkstemp"
    /\ wr.caller = "delete_selected_mod"
    /\ ItemsOf(data, vehicle) = PyList(<<NamedItem("Exhaust")>>)
    /\ Len(MaintenanceOf(data, vehicle).c) = 3

====
